---- MODULE Spec2Model ----
(***************************************************************************)
(* Delegacje: the financial calculation core (per-diem, trip balance, net  *)
(* salary) and the project routes that persist its inputs.                 *)
(*                                                                         *)
(* Units.  Instants and durations are whole minutes (the code works on     *)
(* millisecond Dates and compares hours; minutes keep every comparison the *)
(* code makes: 8 h = 480, 12 h = 720, 24 h = 1440).  Money is whole cents. *)
(* A daily rate is held in cents (45 PLN = 4500).  Fractions of a day are  *)
(* sixths (1/3 = 2, 1/2 = 3, 1 = 6) and the unrounded diet amounts inside  *)
(* calculateDiet are twelfths of a cent, so that every product the code    *)
(* forms is an exact integer.  Rates of the tax snapshot are parts per     *)
(* 10000 (9.76% = 976) and the PPK percentage is in tenths of a percent.   *)
(***************************************************************************)
EXTENDS Integers, Sequences, FiniteSets, TLC

VARIABLES
  user,       \* the authenticated user's settings row (User table)
  projects,   \* Project table: project id -> row or NoProject
  response,   \* the last HTTP response sent by a route
  dietIn,     \* argument of a call of calculateDiet
  dietOut,    \* what that call returned or threw
  balIn,      \* argument of a call of calculateProjectBalance
  balOut,     \* what that call returned or threw
  salIn,      \* argument of a call of calculateSalaryNet
  salOut,     \* what that call returned
  dupIn,      \* arguments of a call of detectDuplicateDocument
  dupOut,     \* what that call returned
  transactions, \* Transaction table: the rows in insertion order
  advances,   \* Advance table: the rows in insertion order
  requests,   \* project requests between their read and their write
  receipts,   \* Receipt table: receipt id -> row or NoReceipt
  runs        \* the runs of processReceiptAsync, in starting order

vars == <<user, projects, response, dietIn, dietOut, balIn, balOut, salIn, salOut,
          dupIn, dupOut, transactions, advances, requests, receipts, runs>>
routeVars == <<user, projects, response>>
dietVars == <<dietIn, dietOut>>
balVars == <<balIn, balOut>>
salVars == <<salIn, salOut>>
dupVars == <<dupIn, dupOut>>
ledgerVars == <<transactions, advances>>
receiptVars == <<receipts, runs>>

----------------------------------------------------------------------------
(* Bounds of the model                                                      *)

MaxFullDays == 2       \* trips last up to MaxFullDays whole days plus a remainder
MaxBreakfast == 3      \* breakfastCount ranges over 0..MaxBreakfast
MaxTx == 2             \* transactions per balance input
MaxAdv == 2            \* advances per balance input
MaxGrossSteps == 12    \* gross salaries GrossStep, 2*GrossStep, ...
MaxFieldsPresent == 2  \* optional fields present in a partial request body
MaxDocs == 2           \* existing documents a new document is compared with
MaxRateSteps == 4      \* rates 0, RateStep, ..., MaxRateSteps * RateStep of a wide snapshot
MaxLedgerRows == 2     \* rows of the Transaction and Advance tables together
MaxInFlight == 2       \* project requests between their read and their write
MaxReceipts == 2       \* rows of the Receipt table
MaxRuns == 2           \* runs of processReceiptAsync started in a behaviour

----------------------------------------------------------------------------
(* Values shared by the definitions below                                   *)

\* an absent optional number (undefined / null); every real value is >= 0
NULL == -1

Min(a, b) == IF a <= b THEN a ELSE b
Max(a, b) == IF a >= b THEN a ELSE b

\* Math.round(n / d) for d > 0: nearest integer, ties towards +infinity
MathRound(n, d) ==
  IF d % 2 = 0 THEN (n + d \div 2) \div d ELSE (2 * n + d) \div (2 * d)

\* round2(value) with value = n / d cents: Math.round(value * 100) / 100, in cents
round2(n, d) == MathRound(n, d)

RECURSIVE SumSeq(_)
SumSeq(s) == IF s = <<>> THEN 0 ELSE Head(s) + SumSeq(Tail(s))

RECURSIVE SeqsUpTo(_, _)
\* all sequences over S of length at most n
SeqsUpTo(S, n) ==
  IF n = 0 THEN {<<>>}
  ELSE LET shorter == SeqsUpTo(S, n - 1)
       IN  shorter \cup {Append(s, x) : s \in {t \in shorter : Len(t) = n - 1}, x \in S}

----------------------------------------------------------------------------
(* countries.ts: the country rate table                                     *)

COUNTRIES ==
  { [code |-> "PL", name |-> "Polska", currency |-> "PLN",
     dailyRate |-> 4500, accommodation |-> 27000],
    [code |-> "DE", name |-> "Niemcy", currency |-> "EUR",
     dailyRate |-> 4900, accommodation |-> 17000],
    [code |-> "FR", name |-> "Francja", currency |-> "EUR",
     dailyRate |-> 5000, accommodation |-> 18000] }

CountryCodes == {c.code : c \in COUNTRIES}

\* a two-letter code that is not in the table
UnknownCountryCode == "XX"

NoCountry == [code |-> "", name |-> "", currency |-> "", dailyRate |-> 0, accommodation |-> 0]

getCountryByCode(code) ==
  IF code \in CountryCodes
  THEN CHOOSE c \in COUNTRIES : c.code = code
  ELSE NoCountry

----------------------------------------------------------------------------
(* calculateDiet.ts                                                         *)

DietModes == {"LIVE", "PLANNED", "CLOSED"}

\* the unused helper of the source: the 8-12 h branch lacks its return
getPartialDayMultiplier(minutes) ==
  IF minutes < 8 * 60 THEN 2 ELSE 6

\* the two reduced multipliers exchanged
getMultiplierForHoursSwapped(minutes) ==
  IF minutes < 8 * 60 THEN 3
  ELSE IF minutes >= 8 * 60 /\ minutes < 12 * 60 THEN 2
  ELSE 6

\* the helper calculateDiet uses; the result is in sixths of a day
getMultiplierForHours(minutes) ==
  IF minutes < 8 * 60 THEN 2
  ELSE IF minutes >= 8 * 60 /\ minutes < 12 * 60 THEN 3
  ELSE 6

\* the error thrown by calculateDiet
DietError(msg) == [threw |-> TRUE, error |-> msg]

\* rows of detailedBreakdown: one per full day, then the partial day if any
FullDayRows(startDatetime, fullDays, dailyRate) ==
  [day \in 1..fullDays |->
     [day |-> day,
      date |-> (startDatetime + (day - 1) * 1440) \div 1440,
      hours |-> 240,                      \* tenths of an hour
      multiplier |-> 6,
      amount |-> dailyRate * 6]]          \* sixths of a cent

PartialDayRow(startDatetime, fullDays, remainingMinutes, multiplier, dailyRate) ==
  [day |-> fullDays + 1,
   date |-> (startDatetime + fullDays * 1440) \div 1440,
   hours |-> MathRound(remainingMinutes * 10, 60),
   multiplier |-> multiplier,
   amount |-> dailyRate * multiplier]

\* breakfastDeduction, unrounded, in twelfths of a cent
breakfastDeductionUncapped(breakfastCount, dailyRate, dietBeforeBreakfast12) ==
  breakfastCount * dailyRate * 3

breakfastDeductionOf(breakfastCount, dailyRate, dietBeforeBreakfast12) ==
  Min(breakfastCount * dailyRate * 3, dietBeforeBreakfast12)

notStartedStrict(endDatetime, startDatetime) == endDatetime < startDatetime

\* the test for a trip that has not started or has no duration
notStarted(endDatetime, startDatetime) == endDatetime <= startDatetime

calculateDiet(input) ==
  LET breakfastCount == IF input.breakfastCount = NULL THEN 0 ELSE input.breakfastCount
      dailyRate == input.dailyRate
      endDatetime ==
        CASE input.mode = "LIVE" -> input.now
          [] input.mode = "PLANNED" -> input.plannedEndDatetime
          [] input.mode = "CLOSED" -> input.actualEndDatetime
      isLive == input.mode = "LIVE"
  IN
  IF input.mode = "PLANNED" /\ input.plannedEndDatetime = NULL
  THEN DietError("plannedEndDatetime required for PLANNED mode")
  ELSE IF input.mode = "CLOSED" /\ input.actualEndDatetime = NULL
  THEN DietError("actualEndDatetime required for CLOSED mode")
  ELSE IF notStarted(endDatetime, input.startDatetime)
  THEN [threw |-> FALSE,
        fullDays |-> 0, partialDay |-> 0, partialDayMultiplier |-> 0,
        totalDays |-> 0, dietBeforeBreakfast |-> 0, breakfastDeduction |-> 0,
        totalDiet |-> 0, currency |-> input.currency,
        detailedBreakdown |-> <<>>, endDatetime |-> endDatetime, isLive |-> isLive]
  ELSE
    LET totalMinutes == endDatetime - input.startDatetime
        fullDays == totalMinutes \div 1440
        remainingMinutes == totalMinutes % 1440
        partialDayMultiplier == getMultiplierForHours(remainingMinutes)
        partialDayFraction == IF remainingMinutes > 0 THEN partialDayMultiplier ELSE 0
        totalDays6 == 6 * fullDays + partialDayFraction
        dietBeforeBreakfast12 == totalDays6 * dailyRate * 2
        breakfastDeduction12 ==
          breakfastDeductionOf(breakfastCount, dailyRate, dietBeforeBreakfast12)
        totalDiet12 == Max(0, dietBeforeBreakfast12 - breakfastDeduction12)
        fullRows == FullDayRows(input.startDatetime, fullDays, dailyRate)
        detailedBreakdown ==
          IF remainingMinutes > 0
          THEN Append(fullRows,
                      PartialDayRow(input.startDatetime, fullDays, remainingMinutes,
                                    partialDayMultiplier, dailyRate))
          ELSE fullRows
    IN [threw |-> FALSE,
        fullDays |-> fullDays,
        partialDay |-> MathRound(remainingMinutes * 10, 60),
        partialDayMultiplier |-> partialDayMultiplier,
        totalDays |-> MathRound(totalDays6 * 100, 6),
        dietBeforeBreakfast |-> MathRound(dietBeforeBreakfast12, 12),
        breakfastDeduction |-> MathRound(breakfastDeduction12, 12),
        totalDiet |-> MathRound(totalDiet12, 12),
        currency |-> input.currency,
        detailedBreakdown |-> detailedBreakdown,
        endDatetime |-> endDatetime,
        isLive |-> isLive]

----------------------------------------------------------------------------
(* calculateProjectBalance.ts                                               *)

CategoryNames == {"FOOD", "TRANSPORT", "HOTEL", "PARKING", "FUEL", "OTHER"}

\* String.prototype.toUpperCase on the category strings the model uses
toUpperCase(str) ==
  CASE str = "food" -> "FOOD"
    [] str = "hotel" -> "HOTEL"
    [] str = "taxi" -> "TAXI"
    [] OTHER -> str

getDietModeLiveUnlessClosed(status, actualEndDatetime) ==
  IF status = "CLOSED" /\ actualEndDatetime # NULL THEN "CLOSED" ELSE "LIVE"

getDietMode(status, actualEndDatetime) ==
  IF status = "CLOSED" /\ actualEndDatetime # NULL THEN "CLOSED"
  ELSE IF status = "ACTIVE" THEN "LIVE"
  ELSE "PLANNED"

isValidTransactionIgnoringExcluded(t) == ~t.isPrivate

\* the predicate of the validTransactions filter
isValidTransaction(t) == ~t.isPrivate /\ ~t.excludedFromProject

validTransactions(rows) == SelectSeq(rows, isValidTransaction)

\* the category a valid transaction is summed under
categoryKey(t) ==
  LET cat == toUpperCase(t.category)
  IN IF cat \in CategoryNames THEN cat ELSE "OTHER"

RECURSIVE sumCategories(_, _)
\* the for-loop over validTransactions, starting from the totals acc
sumCategories(valid, acc) ==
  IF valid = <<>> THEN acc
  ELSE LET t == Head(valid)
           k == categoryKey(t)
       IN sumCategories(Tail(valid), [acc EXCEPT ![k] = round2(acc[k] + t.amount, 1)])

hotelCombinedOf(categoryTotals) ==
  round2(categoryTotals["HOTEL"] + categoryTotals["PARKING"], 1)

hotelStatusStrict(hotelCombined, hotelLimit) ==
  IF hotelCombined > 0
  THEN IF hotelCombined < hotelLimit THEN "within_limit" ELSE "over_limit"
  ELSE "no_hotel"

hotelStatusOf(hotelCombined, hotelLimit) ==
  IF hotelCombined > 0
  THEN IF hotelCombined <= hotelLimit THEN "within_limit" ELSE "over_limit"
  ELSE "no_hotel"

hotelOverageOf(hotelCombined, hotelLimit) ==
  IF hotelCombined > 0 /\ ~(hotelCombined <= hotelLimit)
  THEN round2(hotelCombined - hotelLimit, 1)
  ELSE 0

\* trip duration in minutes, as calculateTripHours computes it
calculateTripHours(project, now) ==
  LET endDate ==
        IF project.status = "CLOSED" /\ project.actualEndDatetime # NULL
        THEN project.actualEndDatetime
        ELSE IF project.plannedEndDatetime # NULL
        THEN (IF project.status = "ACTIVE" THEN now ELSE project.plannedEndDatetime)
        ELSE now
  IN Max(0, endDate - project.startDatetime)

\* what buildBalanceDescription prints: the sign, the three parts, the verdict
buildBalanceDescription(balance, currency, parts) ==
  [sign |-> IF balance >= 0 THEN "+" ELSE "",
   advancesTotal |-> parts.advancesTotal,
   expensesTotal |-> parts.expensesTotal,
   dietTotal |-> parts.dietTotal,
   balance |-> balance,
   currency |-> currency,
   status |-> IF balance > 0 THEN "company_pays"
              ELSE IF balance < 0 THEN "must_return"
              ELSE "zero"]

balanceWithoutDiet(advancesTotal, expensesTotal, totalDiet) ==
  round2(advancesTotal - expensesTotal, 1)

balanceOf(advancesTotal, expensesTotal, totalDiet) ==
  round2(advancesTotal - expensesTotal + totalDiet, 1)

\* input.now is the wall clock that calculateDiet (LIVE) and
\* calculateTripHours read with new Date()
calculateProjectBalance(input) ==
  LET project == input.project
      valid == validTransactions(input.transactions)
      advancesTotal == round2(SumSeq([i \in 1..Len(input.advances) |-> input.advances[i].amount]), 1)
      categoryTotals == sumCategories(valid, [c \in CategoryNames |-> 0])
      expensesTotal ==
        round2(categoryTotals["FOOD"] + categoryTotals["TRANSPORT"] + categoryTotals["HOTEL"]
               + categoryTotals["PARKING"] + categoryTotals["FUEL"] + categoryTotals["OTHER"], 1)
      hotelCombined == hotelCombinedOf(categoryTotals)
      hotelLimit == project.hotelLimitSnapshot
      dietMode == getDietMode(project.status, project.actualEndDatetime)
      diet == calculateDiet([startDatetime |-> project.startDatetime,
                             plannedEndDatetime |-> project.plannedEndDatetime,
                             actualEndDatetime |-> project.actualEndDatetime,
                             mode |-> dietMode,
                             dailyRate |-> project.dietAmountSnapshot,
                             currency |-> project.currency,
                             breakfastCount |-> project.breakfastCount,
                             now |-> input.now])
  IN
  IF diet.threw THEN diet
  ELSE
    LET balance == balanceOf(advancesTotal, expensesTotal, diet.totalDiet)
        tripMinutes == calculateTripHours(project, input.now)
    IN [threw |-> FALSE,
        advancesTotal |-> advancesTotal,
        expensesTotal |-> expensesTotal,
        categoryTotals |-> categoryTotals,
        hotelCombined |-> hotelCombined,
        hotelLimit |-> hotelLimit,
        hotelStatus |-> hotelStatusOf(hotelCombined, hotelLimit),
        hotelOverage |-> hotelOverageOf(hotelCombined, hotelLimit),
        diet |-> diet,
        balance |-> balance,
        balanceDescription |->
          buildBalanceDescription(balance, project.currency,
                                  [advancesTotal |-> advancesTotal,
                                   expensesTotal |-> expensesTotal,
                                   dietTotal |-> diet.totalDiet]),
        averageDailyExpense |->
          IF tripMinutes > 0 THEN round2(expensesTotal * 1440, tripMinutes) ELSE 0,
        transactionCount |-> Len(valid)]

----------------------------------------------------------------------------
(* calculateSalaryNet.ts                                                    *)

\* rates in parts per 10000, amounts in cents
TAX_RATES_2024_2025 ==
  [pensionRate |-> 976,
   disabilityRate |-> 150,
   sicknessRate |-> 245,
   healthInsuranceRate |-> 900,
   incomeTaxRate |-> 1200,
   taxFreeMonthly |-> 30000,
   costOfIncome |-> 2000,
   maxCostOfIncome |-> 25000]

\* SalaryInput.taxRates left out by the caller
NoTaxRates == [TAX_RATES_2024_2025 EXCEPT !.pensionRate = NULL]

sicknessAlways(brutto, voluntarySocialSecurity, rates) ==
  round2(brutto * rates.sicknessRate, 10000)

sicknessContributionOf(brutto, voluntarySocialSecurity, rates) ==
  IF voluntarySocialSecurity THEN round2(brutto * rates.sicknessRate, 10000) ELSE 0

healthInsuranceBaseOf(brutto, totalSocialSecurity) ==
  round2(brutto - totalSocialSecurity, 1)

costOfIncomeUncapped(incomeBase, rates) ==
  round2(incomeBase * rates.costOfIncome, 10000)

costOfIncomeOf(incomeBase, rates) ==
  LET rawCostOfIncome == round2(incomeBase * rates.costOfIncome, 10000)
  IN Min(rawCostOfIncome, rates.maxCostOfIncome)

nettoAddingPpk(brutto, totalSocialSecurity, healthInsurance, incomeTax, ppkEmployee) ==
  round2(brutto - totalSocialSecurity - healthInsurance - incomeTax + ppkEmployee, 1)

nettoIgnoringPpk(brutto, totalSocialSecurity, healthInsurance, incomeTax, ppkEmployee) ==
  round2(brutto - totalSocialSecurity - healthInsurance - incomeTax, 1)

nettoOf(brutto, totalSocialSecurity, healthInsurance, incomeTax, ppkEmployee) ==
  round2(brutto - totalSocialSecurity - healthInsurance - incomeTax - ppkEmployee, 1)

calculateSalaryNet(input) ==
  LET brutto == input.brutto
      rates == IF input.taxRates = NoTaxRates THEN TAX_RATES_2024_2025 ELSE input.taxRates
      \* Step 1
      pensionContribution == round2(brutto * rates.pensionRate, 10000)
      disabilityContribution == round2(brutto * rates.disabilityRate, 10000)
      sicknessContribution ==
        sicknessContributionOf(brutto, input.voluntarySocialSecurity, rates)
      totalSocialSecurity ==
        pensionContribution + disabilityContribution + sicknessContribution
      \* Step 2
      healthInsuranceBase == healthInsuranceBaseOf(brutto, totalSocialSecurity)
      healthInsurance == round2(healthInsuranceBase * rates.healthInsuranceRate, 10000)
      \* Step 3
      incomeBase == round2(brutto - totalSocialSecurity, 1)
      costOfIncome == costOfIncomeOf(incomeBase, rates)
      \* whole currency units
      taxBase == MathRound(Max(0, incomeBase - costOfIncome), 100)
      taxBeforeDeduction == round2(taxBase * 100 * rates.incomeTaxRate, 10000)
      taxFreeDeduction == Min(taxBeforeDeduction, rates.taxFreeMonthly)
      incomeTax == Max(0, round2(taxBeforeDeduction - taxFreeDeduction, 1))
      \* Step 4: ppkPercentage is in tenths of a percent
      ppkEmployee == IF input.ppkEnabled THEN round2(brutto * input.ppkPercentage, 1000) ELSE 0
      \* Step 5
      netto == nettoOf(brutto, totalSocialSecurity, healthInsurance, incomeTax, ppkEmployee)
  IN [brutto |-> brutto,
      netto |-> netto,
      pensionContribution |-> pensionContribution,
      disabilityContribution |-> disabilityContribution,
      sicknessContribution |-> sicknessContribution,
      totalSocialSecurity |-> totalSocialSecurity,
      healthInsuranceBase |-> healthInsuranceBase,
      healthInsurance |-> healthInsurance,
      incomeBase |-> incomeBase,
      costOfIncome |-> costOfIncome,
      taxBase |-> taxBase,
      taxBeforeDeduction |-> taxBeforeDeduction,
      taxFreeDeduction |-> taxFreeDeduction,
      incomeTax |-> incomeTax,
      ppkEmployee |-> ppkEmployee]

----------------------------------------------------------------------------
(* encryption.ts                                                            *)

\* a TEXT column holding no ciphertext (null)
NullText == <<>>

\* AES-256-GCM of value.toString(); the random IV does not affect decryption
encryptNumber(value) == <<"aes-256-gcm", value>>

decryptNumber(encrypted) == encrypted[2]

----------------------------------------------------------------------------
(* Project and user tables, request bodies                                  *)

ProjectIds == {"p1"}

ContractTypes == {"EMPLOYMENT", "CIVIL_CONTRACT", "B2B", "OTHER"}

\* a field the request body does not carry (undefined)
ABSENT == -2
AbsentText == ""

NoProject == [status |-> "NONE"]

\* column defaults of the User table
DefaultUser ==
  [contractType |-> "CIVIL_CONTRACT",
   voluntarySocialSecurity |-> FALSE,
   ppkEnabled |-> FALSE,
   ppkPercentage |-> 20]

NoResponse == [route |-> "", status |-> 0, salaryNetto |-> NULL]

EndSamples == {480 + 54 * 60, 400}
RouteCountryCodes == {"PL", "DE"}
RouteBreakfasts == {0, 1}
SalarySamples == {500000}
PpkSamples == {40}

\* sanitizeProject: the decrypted net salary of the response, if any
sanitizeProject(project) ==
  IF project.salaryNetto # NullText THEN decryptNumber(project.salaryNetto) ELSE NULL

Respond(route, status, project) ==
  [route |-> route, status |-> status,
   salaryNetto |-> IF project = NoProject THEN NULL ELSE sanitizeProject(project)]

----------------------------------------------------------------------------
(* users.routes.ts                                                          *)

\* PUT /api/v1/users/me/settings
UpdateSettings(body) ==
  /\ user' =
       [contractType |->
          IF body.contractType # AbsentText THEN body.contractType ELSE user.contractType,
        voluntarySocialSecurity |->
          IF body.voluntarySocialSecurity # AbsentText
          THEN body.voluntarySocialSecurity = "true" ELSE user.voluntarySocialSecurity,
        ppkEnabled |->
          IF body.ppkEnabled # AbsentText THEN body.ppkEnabled = "true" ELSE user.ppkEnabled,
        ppkPercentage |->
          IF body.ppkPercentage # ABSENT THEN body.ppkPercentage ELSE user.ppkPercentage]
  /\ response' = [route |-> "PUT /users/me/settings", status |-> 200, salaryNetto |-> NULL]
  /\ UNCHANGED <<projects, dietVars, balVars, salVars, dupVars, ledgerVars, requests, receiptVars>>

\* how many of its optional fields a partial request body carries
Count(present) == IF present THEN 1 ELSE 0

SettingsPresent(b) ==
  Count(b.contractType # AbsentText) + Count(b.voluntarySocialSecurity # AbsentText)
    + Count(b.ppkEnabled # AbsentText) + Count(b.ppkPercentage # ABSENT)

UpdatePresent(b) ==
  Count(b.name # AbsentText) + Count(b.countryCode # AbsentText)
    + Count(b.startDatetime # ABSENT) + Count(b.plannedEndDatetime # ABSENT)
    + Count(b.breakfastCount # ABSENT)

AllSettingsBodies ==
  [contractType : ContractTypes \cup {AbsentText},
   voluntarySocialSecurity : {"true", "false", AbsentText},
   ppkEnabled : {"true", "false", AbsentText},
   ppkPercentage : PpkSamples \cup {ABSENT}]

SettingsBodies == {b \in AllSettingsBodies : SettingsPresent(b) <= MaxFieldsPresent}

----------------------------------------------------------------------------
(* projects.routes.ts                                                       *)

CreateBodies ==
  [name : {"Trip"},
   countryCode : RouteCountryCodes \cup {UnknownCountryCode},
   startDatetime : {480},
   plannedEndDatetime : {ABSENT, 480 + 54 * 60},
   breakfastCount : RouteBreakfasts,
   salaryBrutto : SalarySamples \cup {ABSENT}]

AllUpdateBodies ==
  [name : {AbsentText, "Renamed"},
   countryCode : RouteCountryCodes \cup {UnknownCountryCode, AbsentText},
   startDatetime : {ABSENT, 600},
   plannedEndDatetime : {ABSENT, NULL, 480 + 54 * 60},
   breakfastCount : RouteBreakfasts \cup {ABSENT}]

UpdateBodies == {b \in AllUpdateBodies : UpdatePresent(b) <= MaxFieldsPresent}

CloseBodies == [actualEndDatetime : EndSamples]

\* POST /api/v1/projects
CreateProject(id, body) ==
  /\ projects[id] = NoProject
  /\ LET country == getCountryByCode(body.countryCode)
     IN IF country = NoCountry
        THEN /\ response' = Respond("POST /projects", 400, NoProject)
             /\ UNCHANGED projects
        ELSE LET salaryCalc ==
                   calculateSalaryNet([brutto |-> body.salaryBrutto,
                                       voluntarySocialSecurity |-> user.voluntarySocialSecurity,
                                       ppkEnabled |-> user.ppkEnabled,
                                       ppkPercentage |-> user.ppkPercentage,
                                       taxRates |-> TAX_RATES_2024_2025])
                 hasSalary == body.salaryBrutto # ABSENT /\ body.salaryBrutto # 0
                 project ==
                   [status |-> "ACTIVE",
                    name |-> body.name,
                    countryCode |-> body.countryCode,
                    countryName |-> country.name,
                    currency |-> country.currency,
                    dietAmountSnapshot |-> country.dailyRate,
                    hotelLimitSnapshot |-> country.accommodation,
                    startDatetime |-> body.startDatetime,
                    plannedEndDatetime |->
                      IF body.plannedEndDatetime # ABSENT
                      THEN body.plannedEndDatetime ELSE NULL,
                    actualEndDatetime |-> NULL,
                    breakfastCount |-> body.breakfastCount,
                    salaryBrutto |->
                      IF hasSalary THEN encryptNumber(body.salaryBrutto) ELSE NullText,
                    salaryNetto |->
                      IF hasSalary THEN encryptNumber(salaryCalc.netto) ELSE NullText,
                    taxSnapshotData |-> TAX_RATES_2024_2025]
             IN /\ projects' = [projects EXCEPT ![id] = project]
                /\ response' = Respond("POST /projects", 201, project)
  /\ UNCHANGED <<user, dietVars, balVars, salVars, dupVars, ledgerVars, requests, receiptVars>>

isClosedArchived(existing) == existing.status = "ARCHIVED"

\* existing.status === 'CLOSED', the test PUT /:id and POST /:id/close reject on
isClosed(existing) == existing.status = "CLOSED"

\* prisma.project.update({ where: { id }, data: updateData }) of PUT /:id: the
\* row with the fields the body carries replaced
applyUpdateData(row, body) ==
  LET country == getCountryByCode(body.countryCode)
      changeCountry == body.countryCode # AbsentText
  IN [row EXCEPT
        !.name = IF body.name # AbsentText THEN body.name ELSE @,
        !.startDatetime = IF body.startDatetime # ABSENT THEN body.startDatetime ELSE @,
        !.plannedEndDatetime =
          IF body.plannedEndDatetime # ABSENT THEN body.plannedEndDatetime ELSE @,
        !.breakfastCount = IF body.breakfastCount # ABSENT THEN body.breakfastCount ELSE @,
        !.countryCode = IF changeCountry THEN body.countryCode ELSE @,
        !.countryName = IF changeCountry THEN country.name ELSE @,
        !.currency = IF changeCountry THEN country.currency ELSE @,
        !.dietAmountSnapshot = IF changeCountry THEN country.dailyRate ELSE @,
        !.hotelLimitSnapshot = IF changeCountry THEN country.accommodation ELSE @]

applyCloseStatusOnly(row, body) == [row EXCEPT !.status = "CLOSED"]

\* prisma.project.update of POST /:id/close
applyClose(row, body) ==
  [row EXCEPT !.status = "CLOSED", !.actualEndDatetime = body.actualEndDatetime]

\* PUT /api/v1/projects/:id
UpdateProject(id, body) ==
  /\ LET existing == projects[id]
     IN IF existing = NoProject
        THEN /\ response' = Respond("PUT /projects/:id", 404, NoProject)
             /\ UNCHANGED projects
        ELSE IF isClosed(existing)
        THEN /\ response' = Respond("PUT /projects/:id", 400, NoProject)
             /\ UNCHANGED projects
        ELSE IF body.countryCode # AbsentText /\ getCountryByCode(body.countryCode) = NoCountry
        THEN /\ response' = Respond("PUT /projects/:id", 400, NoProject)
             /\ UNCHANGED projects
        ELSE LET project == applyUpdateData(existing, body)
             IN /\ projects' = [projects EXCEPT ![id] = project]
                /\ response' = Respond("PUT /projects/:id", 200, project)
  /\ UNCHANGED <<user, dietVars, balVars, salVars, dupVars, ledgerVars, requests, receiptVars>>

\* POST /api/v1/projects/:id/close
CloseProject(id, body) ==
  /\ LET existing == projects[id]
     IN IF existing = NoProject
        THEN /\ response' = Respond("POST /projects/:id/close", 404, NoProject)
             /\ UNCHANGED projects
        ELSE IF isClosed(existing)
        THEN /\ response' = Respond("POST /projects/:id/close", 400, NoProject)
             /\ UNCHANGED projects
        ELSE LET project == applyClose(existing, body)
             IN /\ projects' = [projects EXCEPT ![id] = project]
                /\ response' = Respond("POST /projects/:id/close", 200, project)
  /\ UNCHANGED <<user, dietVars, balVars, salVars, dupVars, ledgerVars, requests, receiptVars>>

\* The same two handlers with their awaits visible.  Each reads the row
\* with findFirst, answers 404 or 400 from what it read, and issues its
\* update in a later step; other requests run between the two steps.  A
\* request between its steps is held in requests.

RaceUpdateBodies ==
  { b \in UpdateBodies : UpdatePresent(b) = 1 /\ b.name = AbsentText
                         /\ b.countryCode # UnknownCountryCode }

\* PUT /api/v1/projects/:id up to the end of its checks
UpdateProjectRead(id, body) ==
  /\ Cardinality(requests) < MaxInFlight
  /\ LET existing == projects[id]
     IN IF existing = NoProject
        THEN /\ response' = Respond("PUT /projects/:id", 404, NoProject)
             /\ UNCHANGED requests
        ELSE IF isClosed(existing)
        THEN /\ response' = Respond("PUT /projects/:id", 400, NoProject)
             /\ UNCHANGED requests
        ELSE IF body.countryCode # AbsentText /\ getCountryByCode(body.countryCode) = NoCountry
        THEN /\ response' = Respond("PUT /projects/:id", 400, NoProject)
             /\ UNCHANGED requests
        ELSE /\ requests' = requests \cup {[route |-> "PUT /projects/:id", id |-> id,
                                            body |-> body]}
             /\ UNCHANGED response
  /\ UNCHANGED <<user, projects, dietVars, balVars, salVars, dupVars, ledgerVars, receiptVars>>

\* PUT /api/v1/projects/:id from prisma.project.update on
UpdateProjectWrite(req) ==
  /\ req.route = "PUT /projects/:id"
  /\ LET project == applyUpdateData(projects[req.id], req.body)
     IN /\ projects' = [projects EXCEPT ![req.id] = project]
        /\ response' = Respond("PUT /projects/:id", 200, project)
  /\ requests' = requests \ {req}
  /\ UNCHANGED <<user, dietVars, balVars, salVars, dupVars, ledgerVars, receiptVars>>

\* POST /api/v1/projects/:id/close up to the end of its checks
CloseProjectRead(id, body) ==
  /\ Cardinality(requests) < MaxInFlight
  /\ LET existing == projects[id]
     IN IF existing = NoProject
        THEN /\ response' = Respond("POST /projects/:id/close", 404, NoProject)
             /\ UNCHANGED requests
        ELSE IF isClosed(existing)
        THEN /\ response' = Respond("POST /projects/:id/close", 400, NoProject)
             /\ UNCHANGED requests
        ELSE /\ requests' = requests \cup {[route |-> "POST /projects/:id/close", id |-> id,
                                            body |-> body]}
             /\ UNCHANGED response
  /\ UNCHANGED <<user, projects, dietVars, balVars, salVars, dupVars, ledgerVars, receiptVars>>

\* POST /api/v1/projects/:id/close from prisma.project.update on
CloseProjectWrite(req) ==
  /\ req.route = "POST /projects/:id/close"
  /\ LET project == applyClose(projects[req.id], req.body)
     IN /\ projects' = [projects EXCEPT ![req.id] = project]
        /\ response' = Respond("POST /projects/:id/close", 200, project)
  /\ requests' = requests \ {req}
  /\ UNCHANGED <<user, dietVars, balVars, salVars, dupVars, ledgerVars, receiptVars>>

\* a row of the Transaction or Advance table that no longer exists; ids are
\* positions in the table and are never given to another row
NoRow == [projectId |-> "", isDeleted |-> TRUE, gone |-> TRUE]

\* ON DELETE CASCADE of Transaction_projectId_fkey and Advance_projectId_fkey
cascadeDelete(table, projectId) ==
  [i \in DOMAIN table |-> IF table[i].projectId = projectId THEN NoRow ELSE table[i]]

\* DELETE /api/v1/projects/:id
DeleteProject(id) ==
  /\ IF projects[id] = NoProject
     THEN /\ response' = Respond("DELETE /projects/:id", 404, NoProject)
          /\ UNCHANGED projects
     ELSE /\ projects' = [projects EXCEPT ![id] = NoProject]
          /\ response' = Respond("DELETE /projects/:id", 200, NoProject)
  /\ transactions' = cascadeDelete(transactions, id)
  /\ advances' = cascadeDelete(advances, id)
  /\ UNCHANGED <<user, dietVars, balVars, salVars, dupVars, requests, receiptVars>>

rowsOfProjectWithDeleted(table, projectId) ==
  SelectSeq(table, LAMBDA r : r.projectId = projectId)

\* the rows GET /:id/balance includes: of the project, isDeleted false
rowsOfProject(table, projectId) ==
  SelectSeq(table, LAMBDA r : r.projectId = projectId /\ ~r.isDeleted)

BalanceNowSamples == {480 + 42 * 60}

\* GET /api/v1/projects/:id/balance; now is the wall clock of the request
GetBalance(id, now) ==
  /\ LET project == projects[id]
     IN IF project = NoProject
        THEN response' = [route |-> "GET /projects/:id/balance", status |-> 404,
                          salaryNetto |-> NULL]
        ELSE LET balance ==
                   calculateProjectBalance(
                     [project |-> project,
                      transactions |-> rowsOfProject(transactions, id),
                      advances |-> rowsOfProject(advances, id),
                      now |-> now])
             IN IF balance.threw
                THEN response' = [route |-> "GET /projects/:id/balance", status |-> 500,
                                  salaryNetto |-> NULL, error |-> balance]
                ELSE response' = [route |-> "GET /projects/:id/balance", status |-> 200,
                                  salaryNetto |-> NULL, data |-> balance]
  /\ UNCHANGED <<user, projects, dietVars, balVars, salVars, dupVars, ledgerVars, requests,
                 receiptVars>>

----------------------------------------------------------------------------
(* transactions.routes.ts, import.routes.ts, advances.routes.ts             *)
(* A row keeps the columns the balance reads (amount in cents, category,   *)
(* the two exclusion flags), its project and isDeleted; its id is its       *)
(* position in the table.                                                   *)

Answer(route, status) == [route |-> route, status |-> status, salaryNetto |-> NULL]

\* the same for a route with an :id parameter, which the model keeps with the answer
AnswerFor(route, status, id) ==
  [route |-> route, status |-> status, salaryNetto |-> NULL, id |-> id]

CreateTransactionBodies ==
  [projectId : ProjectIds, amount : {1000}, category : {"FOOD"},
   isPrivate : {FALSE}, excludedFromProject : {FALSE}]

UpdateTransactionBodies ==
  {[amount |-> 4000, isPrivate |-> AbsentText], [amount |-> ABSENT, isPrivate |-> "true"]}

CreateAdvanceBodies == [projectId : ProjectIds, amount : {50000}]

\* the parsed amounts of the rows of an uploaded CSV file; 0 stands for a
\* row parseAmount cannot use
CsvFiles == {<<-1200>>, <<0, 700>>}

RowIds == 1..(MaxLedgerRows + 1)

ledgerRows == Len(transactions) + Len(advances)

\* POST /api/v1/transactions
CreateTransaction(body) ==
  /\ ledgerRows < MaxLedgerRows
  /\ IF projects[body.projectId] = NoProject
     THEN /\ response' = Answer("POST /transactions", 404)
          /\ UNCHANGED transactions
     ELSE /\ transactions' =
               Append(transactions,
                      [projectId |-> body.projectId, amount |-> body.amount,
                       category |-> body.category, isPrivate |-> body.isPrivate,
                       excludedFromProject |-> body.excludedFromProject,
                       isDeleted |-> FALSE])
          /\ response' = Answer("POST /transactions", 201)
  /\ UNCHANGED <<user, projects, advances, dietVars, balVars, salVars, dupVars, requests,
                 receiptVars>>

\* findFirst({ where: { id, userId, isDeleted: false } })
findLive(table, id) == id \in DOMAIN table /\ ~table[id].isDeleted

\* PUT /api/v1/transactions/:id
UpdateTransaction(id, body) ==
  /\ IF ~findLive(transactions, id)
     THEN /\ response' = AnswerFor("PUT /transactions/:id", 404, id)
          /\ UNCHANGED transactions
     ELSE /\ transactions' =
               [transactions EXCEPT
                  ![id].amount = IF body.amount # ABSENT THEN body.amount ELSE @,
                  ![id].isPrivate = IF body.isPrivate # AbsentText
                                    THEN body.isPrivate = "true" ELSE @]
          /\ response' = AnswerFor("PUT /transactions/:id", 200, id)
  /\ UNCHANGED <<user, projects, advances, dietVars, balVars, salVars, dupVars, requests,
                 receiptVars>>

\* DELETE /api/v1/transactions/:id
DeleteTransaction(id) ==
  /\ IF ~findLive(transactions, id)
     THEN /\ response' = AnswerFor("DELETE /transactions/:id", 404, id)
          /\ UNCHANGED transactions
     ELSE /\ transactions' = [transactions EXCEPT ![id].isDeleted = TRUE]
          /\ response' = AnswerFor("DELETE /transactions/:id", 200, id)
  /\ UNCHANGED <<user, projects, advances, dietVars, balVars, salVars, dupVars, requests,
                 receiptVars>>

\* the rows the import loop creates: one per usable CSV row, amount Math.abs
RECURSIVE importRows(_, _)
importRows(projectId, file) ==
  IF file = <<>> THEN <<>>
  ELSE LET amount == Head(file)
           rest == importRows(projectId, Tail(file))
       IN IF amount = 0 THEN rest
          ELSE <<[projectId |-> projectId,
                  amount |-> IF amount < 0 THEN -amount ELSE amount,
                  category |-> "OTHER", isPrivate |-> FALSE,
                  excludedFromProject |-> FALSE, isDeleted |-> FALSE]>> \o rest

\* POST /api/v1/import/csv with a projectId and a column mapping
ImportCsv(projectId, file) ==
  /\ ledgerRows + Len(importRows(projectId, file)) <= MaxLedgerRows
  /\ IF projects[projectId] = NoProject
     THEN /\ response' = Answer("POST /import/csv", 404)
          /\ UNCHANGED transactions
     ELSE /\ transactions' = transactions \o importRows(projectId, file)
          /\ response' = Answer("POST /import/csv", 200)
  /\ UNCHANGED <<user, projects, advances, dietVars, balVars, salVars, dupVars, requests,
                 receiptVars>>

\* POST /api/v1/advances
CreateAdvance(body) ==
  /\ ledgerRows < MaxLedgerRows
  /\ IF projects[body.projectId] = NoProject
     THEN /\ response' = Answer("POST /advances", 404)
          /\ UNCHANGED advances
     ELSE /\ advances' = Append(advances, [projectId |-> body.projectId,
                                           amount |-> body.amount, isDeleted |-> FALSE])
          /\ response' = Answer("POST /advances", 201)
  /\ UNCHANGED <<user, projects, transactions, dietVars, balVars, salVars, dupVars,
                 requests, receiptVars>>

\* DELETE /api/v1/advances/:id
DeleteAdvance(id) ==
  /\ IF ~findLive(advances, id)
     THEN /\ response' = AnswerFor("DELETE /advances/:id", 404, id)
          /\ UNCHANGED advances
     ELSE /\ advances' = [advances EXCEPT ![id].isDeleted = TRUE]
          /\ response' = AnswerFor("DELETE /advances/:id", 200, id)
  /\ UNCHANGED <<user, projects, transactions, dietVars, balVars, salVars, dupVars,
                 requests, receiptVars>>

----------------------------------------------------------------------------
(* detectDuplicateDocument.ts                                               *)
(* Amounts of documents are thousandths of a currency unit (120.50 is       *)
(* 120500), so that the 0.01 tolerance and toFixed(2) are visible; dates    *)
(* are minutes since the epoch, UTC; similarities are hundredths.  An       *)
(* absent or empty invoice number is AbsentText (both are falsy wherever    *)
(* the code tests one); an absent amount or date is NULL.                   *)

\* trim() alone
trimOnly(str) ==
  CASE str = " fv/1 " -> "fv/1"
    [] OTHER -> str

\* String.prototype.trim().toLowerCase() on the invoice numbers the model uses
trimToLowerCase(str) ==
  CASE str = "FV/1" -> "fv/1"
    [] str = " fv/1 " -> "fv/1"
    [] str = "FV/2" -> "fv/2"
    [] OTHER -> str

\* Number.prototype.toFixed(2): the amount in cents, nearest
toFixed2(amount) == MathRound(amount, 10)

\* the calendar day of toISOString()
normalizeDate(date) == date \div 1440

datesWithinDays(date1, date2, days) ==
  LET diff == IF date1 >= date2 THEN date1 - date2 ELSE date2 - date1
  IN diff <= days * 1440

amountsMatch(amount1, amount2) ==
  LET diff == IF amount1 >= amount2 THEN amount1 - amount2 ELSE amount2 - amount1
  IN diff < 10

\* SHA-256 of the normalized fields joined by '|': equal exactly when the
\* three normalized fields are equal
generateDocumentFingerprint(doc) ==
  << "sha256",
     IF doc.invoiceNumber = AbsentText THEN "" ELSE trimToLowerCase(doc.invoiceNumber),
     toFixed2(IF doc.amount = NULL THEN 0 ELSE doc.amount),
     IF doc.date = NULL THEN NULL ELSE normalizeDate(doc.date) >>

\* newFingerprint: null unless invoice number, amount and date are all truthy
newFingerprintOf(newDoc) ==
  IF newDoc.invoiceNumber # AbsentText /\ newDoc.amount # NULL /\ newDoc.amount # 0
     /\ newDoc.date # NULL
  THEN generateDocumentFingerprint(newDoc)
  ELSE NullText

NoMatch == [matchReason |-> "", similarity |-> 0, confidence |-> "null"]

amountAndDatePresent(newDoc, existing) ==
  /\ newDoc.amount # NULL /\ newDoc.date # NULL
  /\ existing.detectedAmount # NULL /\ existing.detectedDate # NULL

\* the strategies with the invoice number tried before the amount and date
matchCandidateInvoiceFirst(newDoc, newFingerprint, existing) ==
  IF /\ newFingerprint # NullText /\ existing.fingerprint # NullText
     /\ newFingerprint = existing.fingerprint
  THEN [matchReason |-> "Identyczny dokument (faktura + kwota + data)",
        similarity |-> 100, confidence |-> "exact"]
  ELSE IF /\ newDoc.invoiceNumber # AbsentText /\ existing.invoiceNumber # AbsentText
          /\ trimToLowerCase(newDoc.invoiceNumber) = trimToLowerCase(existing.invoiceNumber)
  THEN [matchReason |-> "Identyczny numer faktury", similarity |-> 60, confidence |-> "low"]
  ELSE IF /\ amountAndDatePresent(newDoc, existing)
          /\ amountsMatch(newDoc.amount, existing.detectedAmount)
          /\ normalizeDate(newDoc.date) = normalizeDate(existing.detectedDate)
  THEN [matchReason |-> "Identyczna kwota i data", similarity |-> 92, confidence |-> "high"]
  ELSE IF /\ amountAndDatePresent(newDoc, existing)
          /\ amountsMatch(newDoc.amount, existing.detectedAmount)
          /\ datesWithinDays(newDoc.date, existing.detectedDate, 1)
  THEN [matchReason |-> "Identyczna kwota, data +-1 dzien",
        similarity |-> 78, confidence |-> "medium"]
  ELSE NoMatch

\* the body of the loop over existingDocs: the if / else-if chain
matchCandidate(newDoc, newFingerprint, existing) ==
  IF /\ newFingerprint # NullText /\ existing.fingerprint # NullText
     /\ newFingerprint = existing.fingerprint
  THEN [matchReason |-> "Identyczny dokument (faktura + kwota + data)",
        similarity |-> 100, confidence |-> "exact"]
  ELSE IF /\ amountAndDatePresent(newDoc, existing)
          /\ amountsMatch(newDoc.amount, existing.detectedAmount)
          /\ normalizeDate(newDoc.date) = normalizeDate(existing.detectedDate)
  THEN [matchReason |-> "Identyczna kwota i data", similarity |-> 92, confidence |-> "high"]
  ELSE IF /\ amountAndDatePresent(newDoc, existing)
          /\ amountsMatch(newDoc.amount, existing.detectedAmount)
          /\ datesWithinDays(newDoc.date, existing.detectedDate, 1)
  THEN [matchReason |-> "Identyczna kwota, data +-1 dzien",
        similarity |-> 78, confidence |-> "medium"]
  ELSE IF /\ newDoc.invoiceNumber # AbsentText /\ existing.invoiceNumber # AbsentText
          /\ trimToLowerCase(newDoc.invoiceNumber) = trimToLowerCase(existing.invoiceNumber)
  THEN [matchReason |-> "Identyczny numer faktury", similarity |-> 60, confidence |-> "low"]
  ELSE NoMatch

RECURSIVE collectMatches(_, _, _)
\* matches.push for every candidate a strategy holds for, in input order
collectMatches(newDoc, newFingerprint, existingDocs) ==
  IF existingDocs = <<>> THEN <<>>
  ELSE LET existing == Head(existingDocs)
           m == matchCandidate(newDoc, newFingerprint, existing)
           rest == collectMatches(newDoc, newFingerprint, Tail(existingDocs))
       IN IF m.matchReason # "" /\ m.confidence # "null"
          THEN << [id |-> existing.id,
                   invoiceNumber |-> existing.invoiceNumber,
                   amount |-> existing.detectedAmount,
                   date |-> existing.detectedDate,
                   similarity |-> m.similarity,
                   matchReason |-> m.matchReason] >> \o rest
          ELSE rest

RECURSIVE insertMatch(_, _)
\* m placed behind every match whose similarity is not smaller
insertMatch(sorted, m) ==
  IF sorted = <<>> THEN <<m>>
  ELSE IF Head(sorted).similarity >= m.similarity
  THEN <<Head(sorted)>> \o insertMatch(Tail(sorted), m)
  ELSE <<m>> \o sorted

sortMatchesNot(matches) == matches

RECURSIVE sortMatches(_)
\* matches.sort((a, b) => b.similarity - a.similarity), a stable sort
sortMatches(matches) ==
  IF matches = <<>> THEN <<>>
  ELSE insertMatch(sortMatches(SubSeq(matches, 1, Len(matches) - 1)),
                   matches[Len(matches)])

getSimilarityConfidence(similarity) ==
  IF similarity >= 99 THEN "exact"
  ELSE IF similarity >= 85 THEN "high"
  ELSE IF similarity >= 70 THEN "medium"
  ELSE "low"

\* the merge and review branches exchanged
suggestedActionSwapped(confidence) ==
  IF confidence = "exact" \/ confidence = "high" THEN "review"
  ELSE IF confidence = "medium" THEN "merge"
  ELSE "add_new"

suggestedActionOf(confidence) ==
  IF confidence = "exact" \/ confidence = "high" THEN "merge"
  ELSE IF confidence = "medium" THEN "review"
  ELSE "add_new"

NoDuplicate ==
  [isDuplicate |-> FALSE, confidence |-> "null",
   matchedDocuments |-> <<>>, suggestedAction |-> "null"]

detectDuplicateDocument(newDoc, existingDocs) ==
  IF Len(existingDocs) = 0 THEN NoDuplicate
  ELSE
    LET newFingerprint == newFingerprintOf(newDoc)
        matches == sortMatches(collectMatches(newDoc, newFingerprint, existingDocs))
    IN IF Len(matches) = 0 THEN NoDuplicate
       ELSE LET bestMatch == matches[1]
                confidence == getSimilarityConfidence(bestMatch.similarity)
            IN [isDuplicate |-> TRUE,
                confidence |-> confidence,
                matchedDocuments |-> matches,
                suggestedAction |-> suggestedActionOf(confidence)]

----------------------------------------------------------------------------
(* Calls of the calculators on enumerated inputs                      *)

NotCalled == [called |-> FALSE]
Returned(value) == [called |-> TRUE, value |-> value]
NoInput == [none |-> TRUE]

\* minutes past a whole number of days at which a trip may end
RemainderSamples == {0, 1, 360, 479, 480, 481, 719, 720, 721, 1439}

\* 08:00 on day 0
TripStart == 8 * 60

TripEnds ==
  {TripStart + d * 1440 + r : d \in 0..MaxFullDays, r \in RemainderSamples}
    \cup {TripStart - 60}

DietRates == {c.dailyRate : c \in COUNTRIES}

DietInputs ==
  LET base(mode, planned, actual, now) ==
        [startDatetime : {TripStart}, plannedEndDatetime : planned,
         actualEndDatetime : actual, mode : {mode}, dailyRate : DietRates,
         currency : {"PLN"}, breakfastCount : {NULL} \cup 0..MaxBreakfast, now : now]
  IN base("LIVE", {NULL}, {NULL}, TripEnds)
       \cup base("PLANNED", TripEnds \cup {NULL}, {NULL}, {TripStart})
       \cup base("CLOSED", {NULL}, TripEnds \cup {NULL}, {TripStart})

CallCalculateDiet ==
  /\ dietOut = NotCalled
  /\ dietOut' = Returned(calculateDiet(dietIn))
  /\ UNCHANGED <<dietIn, routeVars, balVars, salVars, dupVars, ledgerVars, requests, receiptVars>>

Tx(category, amount, isPrivate, excludedFromProject) ==
  [category |-> category, amount |-> amount,
   isPrivate |-> isPrivate, excludedFromProject |-> excludedFromProject]

TxSamples ==
  { Tx("FOOD", 35000, FALSE, FALSE), Tx("TRANSPORT", 5000, FALSE, FALSE),
    Tx("HOTEL", 17000, FALSE, FALSE), Tx("HOTEL", 20000, FALSE, FALSE),
    Tx("PARKING", 10000, FALSE, FALSE), Tx("FUEL", 8000, FALSE, FALSE),
    Tx("OTHER", 1000, FALSE, FALSE), Tx("hotel", 27000, FALSE, FALSE),
    Tx("taxi", 2500, FALSE, FALSE),
    Tx("FOOD", 35000, TRUE, FALSE), Tx("HOTEL", 17000, TRUE, FALSE),
    Tx("PARKING", 10000, FALSE, TRUE), Tx("FOOD", 4000, FALSE, TRUE),
    Tx("OTHER", 1000, TRUE, TRUE) }

AdvanceSamples == {[amount |-> 50000], [amount |-> 12345]}

BalanceNow == TripStart + 30 * 60

BalanceProject(status, planned, actual) ==
  [startDatetime |-> TripStart, plannedEndDatetime |-> planned,
   actualEndDatetime |-> actual, status |-> status,
   dietAmountSnapshot |-> 4500, hotelLimitSnapshot |-> 27000,
   currency |-> "PLN", breakfastCount |-> 1]

BalanceProjects ==
  { BalanceProject("ACTIVE", TripStart + 54 * 60, NULL),
    BalanceProject("CLOSED", TripStart + 54 * 60, TripStart + 54 * 60),
    BalanceProject("DRAFT", TripStart + 54 * 60, NULL),
    BalanceProject("DRAFT", NULL, NULL),
    BalanceProject("CLOSED", TripStart + 24 * 60, NULL) }

BalanceInputs ==
  [project : BalanceProjects,
   transactions : SeqsUpTo(TxSamples, MaxTx),
   advances : SeqsUpTo(AdvanceSamples, MaxAdv),
   now : {BalanceNow}]

CallCalculateProjectBalance ==
  /\ balOut = NotCalled
  /\ balOut' = Returned(calculateProjectBalance(balIn))
  /\ UNCHANGED <<balIn, routeVars, dietVars, salVars, dupVars, ledgerVars, requests, receiptVars>>

\* a second rate snapshot, as a historical project would carry
OtherTaxRates ==
  [pensionRate |-> 1000,
   disabilityRate |-> 200,
   sicknessRate |-> 300,
   healthInsuranceRate |-> 1000,
   incomeTaxRate |-> 1700,
   taxFreeMonthly |-> 10000,
   costOfIncome |-> 1000,
   maxCostOfIncome |-> 30000]

\* 500.00
GrossStep == 500 * 100

\* gross salaries in cents; on each of them the code's IEEE double arithmetic
\* and the exact arithmetic used here give the same line items
GrossValues ==
  {k * GrossStep : k \in 1..MaxGrossSteps}
    \cup {1, 99, 100, 12345, 123456, 350050, 800000, 999999}

SalaryInputs ==
  [brutto : GrossValues,
   voluntarySocialSecurity : BOOLEAN,
   ppkEnabled : BOOLEAN,
   ppkPercentage : {5, 20, 40},
   taxRates : {NoTaxRates, TAX_RATES_2024_2025, OtherTaxRates}]

CallCalculateSalaryNet ==
  /\ salOut = NotCalled
  /\ salOut' = Returned(calculateSalaryNet(salIn))
  /\ UNCHANGED <<salIn, routeVars, dietVars, balVars, dupVars, ledgerVars, requests, receiptVars>>

\* 50%
RateStep == 50 * 100

\* SalaryInput.taxRates is any record of numbers: snapshots whose pension and
\* health rates run from 0 to beyond 100%
WideTaxRates ==
  [pensionRate : {k * RateStep : k \in 0..MaxRateSteps},
   disabilityRate : {150},
   sicknessRate : {245},
   healthInsuranceRate : {k * RateStep : k \in 0..MaxRateSteps} \cup {900},
   incomeTaxRate : {0, 1200},
   taxFreeMonthly : {0, 30000},
   costOfIncome : {2000},
   maxCostOfIncome : {25000}]

WideSalaryInputs ==
  [brutto : {0, 1, 100, 20000},
   voluntarySocialSecurity : BOOLEAN,
   ppkEnabled : BOOLEAN,
   ppkPercentage : {0, 1000},
   taxRates : WideTaxRates]

\* 2024-03-01T00:00Z as a day number, and instants on and after that day
March1 == 19783
At(day, hour) == day * 1440 + hour * 60

\* receipts.routes.ts: the fingerprint stored with a document is generated
\* from its fields when all three were extracted, and is the file hash otherwise
storedFingerprint(invoiceNumber, amount, date, fileHash) ==
  IF invoiceNumber # AbsentText /\ amount # NULL /\ date # NULL
  THEN generateDocumentFingerprint(
         [invoiceNumber |-> invoiceNumber, amount |-> amount, date |-> date])
  ELSE fileHash

FileHash == <<"sha256", "file", 0, 0>>

ExistingDoc(invoiceNumber, amount, date, fileHash) ==
  [id |-> 0,
   fingerprint |-> storedFingerprint(invoiceNumber, amount, date, fileHash),
   invoiceNumber |-> invoiceNumber,
   detectedAmount |-> amount,
   detectedDate |-> date]

ExistingSamples ==
  { ExistingDoc("FV/1", 120500, At(March1, 0), FileHash),
    ExistingDoc("fv/1", 120504, At(March1, 10), FileHash),
    ExistingDoc("FV/1", 0, At(March1, 0), FileHash),
    ExistingDoc("FV/1", 999000, At(March1 + 2, 0), FileHash),
    ExistingDoc(" fv/1 ", NULL, NULL, FileHash),
    ExistingDoc(AbsentText, 120500, At(March1, 10), FileHash),
    ExistingDoc(AbsentText, 120500, At(March1 + 1, 0), FileHash),
    ExistingDoc("FV/2", 120504, At(March1 + 1, 10), FileHash),
    ExistingDoc("FV/2", 120510, At(March1, 0), FileHash),
    ExistingDoc(AbsentText, NULL, NULL, NullText) }

NewDocs ==
  [invoiceNumber : {AbsentText, "FV/1"},
   amount : {NULL, 0, 120500},
   date : {NULL, At(March1, 0), At(March1, 10)}]

\* the rows of the query, each with its own id
withIds(docs) == [i \in 1..Len(docs) |-> [docs[i] EXCEPT !.id = i]]

DuplicateInputs ==
  [newDoc : NewDocs,
   existingDocs : {withIds(docs) : docs \in SeqsUpTo(ExistingSamples, MaxDocs)}]

\* documents to fingerprint: spellings of one invoice number, amounts around
\* a cent boundary, instants on and around one calendar day
FingerprintDocs ==
  [invoiceNumber : {AbsentText, "FV/1", " fv/1 ", "fv/1", "FV/2"},
   amount : {NULL, 0, 120500, 120504, 120506, 120510},
   date : {NULL, At(March1, 0), At(March1, 10), At(March1, 24) - 1, At(March1 + 1, 0)}]

CallGenerateDocumentFingerprint ==
  /\ dupOut = NotCalled
  /\ dupOut' = Returned(generateDocumentFingerprint(dupIn))
  /\ UNCHANGED <<dupIn, routeVars, dietVars, balVars, salVars, ledgerVars, requests,
                 receiptVars>>

CallDetectDuplicateDocument ==
  /\ dupOut = NotCalled
  /\ dupOut' = Returned(detectDuplicateDocument(dupIn.newDoc, dupIn.existingDocs))
  /\ UNCHANGED <<dupIn, routeVars, dietVars, balVars, salVars, ledgerVars, requests,
                 receiptVars>>

----------------------------------------------------------------------------
(* receipts.routes.ts: upload, re-process and processReceiptAsync           *)
(* A receipt's id is its position in the table.  A run of                   *)
(* processReceiptAsync advances one await at a time; pc names the await it  *)
(* is waiting on, "done" once it has returned.  OCR and AI extraction may   *)
(* fail; each prisma call of a run may reject.                              *)

UserIds == {"u1", "u2"}

NewReceipt(userId) ==
  [userId |-> userId,
   processingStatus |-> "PENDING",
   processingError |-> AbsentText,
   ocrText |-> AbsentText,
   invoiceNumber |-> AbsentText,
   detectedAmount |-> NULL,
   detectedDate |-> NULL,
   fingerprint |-> NullText,
   isDuplicate |-> FALSE,
   duplicateOfId |-> NULL]

\* processReceiptAsync(receiptId, filePath, fileHash, userId) up to its first await
NewRun(receiptId, fileHash, userId) ==
  [receiptId |-> receiptId, userId |-> userId, fileHash |-> fileHash,
   pc |-> "processing",
   ocrText |-> AbsentText, invoiceNumber |-> AbsentText,
   detectedAmount |-> NULL, detectedDate |-> NULL,
   ocrFailed |-> FALSE, aiFailed |-> FALSE,
   fingerprint |-> NullText, isDuplicate |-> FALSE, duplicateOfId |-> NULL]

\* a run that has returned or whose promise was rejected
finished(i) == [runs EXCEPT ![i] = [receiptId |-> runs[i].receiptId, pc |-> "done"]]

\* what extractReceiptData returns when it succeeds
AiResults ==
  { [invoiceNumber |-> "FV/1", amount |-> 120500, date |-> At(March1, 10)],
    [invoiceNumber |-> AbsentText, amount |-> 120500, date |-> At(March1, 0)] }

\* POST /api/v1/receipts/upload without a projectId
UploadReceipt(userId) ==
  /\ Len(receipts) < MaxReceipts
  /\ Len(runs) < MaxRuns
  /\ receipts' = Append(receipts, NewReceipt(userId))
  /\ runs' = Append(runs, NewRun(Len(receipts) + 1, FileHash, userId))
  /\ response' = Answer("POST /receipts/upload", 202)
  /\ UNCHANGED <<user, projects, dietVars, balVars, salVars, dupVars, ledgerVars, requests>>

\* POST /api/v1/receipts/:id/process
ReprocessReceipt(id, userId) ==
  /\ Len(runs) < MaxRuns
  /\ IF ~(id \in DOMAIN receipts /\ receipts[id].userId = userId)
     THEN /\ response' = Answer("POST /receipts/:id/process", 404)
          /\ UNCHANGED receiptVars
     ELSE /\ receipts' = [receipts EXCEPT ![id].processingStatus = "PENDING",
                                          ![id].processingError = AbsentText]
          /\ runs' = Append(runs, NewRun(id, NullText, userId))
          /\ response' = Answer("POST /receipts/:id/process", 200)
  /\ UNCHANGED <<user, projects, dietVars, balVars, salVars, dupVars, ledgerVars, requests>>

\* the first prisma.receipt.update, outside the try: a rejection ends the run
RunSetProcessing(i, dbOk) ==
  /\ runs[i].pc = "processing"
  /\ IF dbOk
     THEN /\ receipts' = [receipts EXCEPT ![runs[i].receiptId].processingStatus = "PROCESSING"]
          /\ runs' = [runs EXCEPT ![i].pc = "ocr"]
     ELSE /\ runs' = finished(i)
          /\ UNCHANGED receipts
  /\ UNCHANGED <<routeVars, dietVars, balVars, salVars, dupVars, ledgerVars, requests>>

afterOcrFailureRethrown(run) == [run EXCEPT !.ocrFailed = TRUE, !.pc = "catch"]

\* the catch of the OCR step: a warning, ocrText stays undefined, and the
\* if (ocrText) around the AI step is not entered
afterOcrFailure(run) == [run EXCEPT !.ocrFailed = TRUE, !.pc = "query"]

\* the catch of the AI step: a warning, the extracted fields stay undefined
afterAiFailure(run) == [run EXCEPT !.aiFailed = TRUE, !.pc = "query"]

\* await runOCR(filePath)
RunOcr(i, ok) ==
  /\ runs[i].pc = "ocr"
  /\ runs' = [runs EXCEPT ![i] = IF ok THEN [@ EXCEPT !.ocrText = "text", !.pc = "ai"]
                                 ELSE afterOcrFailure(@)]
  /\ UNCHANGED <<routeVars, dietVars, balVars, salVars, dupVars, ledgerVars, requests,
                 receipts>>

\* await extractReceiptData(ocrText, filePath)
RunAi(i, ok, aiResult) ==
  /\ runs[i].pc = "ai"
  /\ runs' = [runs EXCEPT ![i] = IF ok
                                 THEN [@ EXCEPT !.invoiceNumber = aiResult.invoiceNumber,
                                                !.detectedAmount = aiResult.amount,
                                                !.detectedDate = aiResult.date,
                                                !.pc = "query"]
                                 ELSE afterAiFailure(@)]
  /\ UNCHANGED <<routeVars, dietVars, balVars, salVars, dupVars, ledgerVars, requests,
                 receipts>>

\* findMany({ where: { userId, id: { not: receiptId } } }) mapped to ExistingDocument
otherReceiptsOf(userId, receiptId) ==
  LET ids == SelectSeq([k \in 1..Len(receipts) |-> k],
                       LAMBDA k : receipts[k].userId = userId /\ k # receiptId)
  IN [n \in 1..Len(ids) |->
        [id |-> ids[n],
         fingerprint |-> receipts[ids[n]].fingerprint,
         invoiceNumber |-> receipts[ids[n]].invoiceNumber,
         detectedAmount |-> receipts[ids[n]].detectedAmount,
         detectedDate |-> receipts[ids[n]].detectedDate]]

newDocOf(run) ==
  [invoiceNumber |-> run.invoiceNumber, amount |-> run.detectedAmount,
   date |-> run.detectedDate]

\* the fingerprint, await prisma.receipt.findMany and detectDuplicateDocument
RunQuery(i, dbOk) ==
  /\ runs[i].pc = "query"
  /\ IF dbOk
     THEN LET run == runs[i]
              dupResult == detectDuplicateDocument(newDocOf(run),
                                                   otherReceiptsOf(run.userId, run.receiptId))
          IN runs' = [runs EXCEPT
                        ![i].fingerprint =
                          storedFingerprint(run.invoiceNumber, run.detectedAmount,
                                            run.detectedDate, run.fileHash),
                        ![i].isDuplicate = dupResult.isDuplicate,
                        ![i].duplicateOfId =
                          IF dupResult.isDuplicate /\ Len(dupResult.matchedDocuments) > 0
                          THEN dupResult.matchedDocuments[1].id ELSE NULL,
                        ![i].pc = "write"]
     ELSE runs' = [runs EXCEPT ![i].pc = "catch"]
  /\ UNCHANGED <<routeVars, dietVars, balVars, salVars, dupVars, ledgerVars, requests,
                 receipts>>

\* the prisma.receipt.update that stores the results
RunWrite(i, dbOk) ==
  /\ runs[i].pc = "write"
  /\ IF dbOk
     THEN LET run == runs[i]
          IN /\ receipts' =
                  [receipts EXCEPT ![run.receiptId] =
                     [@ EXCEPT !.processingStatus = "COMPLETED",
                               !.ocrText = run.ocrText,
                               !.invoiceNumber = run.invoiceNumber,
                               !.detectedAmount = run.detectedAmount,
                               !.detectedDate = run.detectedDate,
                               !.fingerprint = run.fingerprint,
                               !.isDuplicate = run.isDuplicate,
                               !.duplicateOfId = run.duplicateOfId]]
             /\ runs' = finished(i)
     ELSE /\ runs' = [runs EXCEPT ![i].pc = "catch"]
          /\ UNCHANGED receipts
  /\ UNCHANGED <<routeVars, dietVars, balVars, salVars, dupVars, ledgerVars, requests>>

\* the outer catch: prisma.receipt.update with FAILED and the error message
RunCatch(i, dbOk) ==
  /\ runs[i].pc = "catch"
  /\ IF dbOk
     THEN receipts' = [receipts EXCEPT ![runs[i].receiptId].processingStatus = "FAILED",
                                       ![runs[i].receiptId].processingError = "error"]
     ELSE UNCHANGED receipts
  /\ runs' = finished(i)
  /\ UNCHANGED <<routeVars, dietVars, balVars, salVars, dupVars, ledgerVars, requests>>

----------------------------------------------------------------------------
(* Specifications                                                           *)

RoutesIdle == user = DefaultUser /\ projects = [id \in ProjectIds |-> NoProject]
                /\ response = NoResponse
DietIdle == dietIn = NoInput /\ dietOut = NotCalled
BalanceIdle == balIn = NoInput /\ balOut = NotCalled
SalaryIdle == salIn = NoInput /\ salOut = NotCalled
DuplicateIdle == dupIn = NoInput /\ dupOut = NotCalled
LedgerIdle == transactions = <<>> /\ advances = <<>>
RequestsIdle == requests = {}
ReceiptsIdle == receipts = <<>> /\ runs = <<>>
StoresIdle == LedgerIdle /\ RequestsIdle /\ ReceiptsIdle

\* the routes
Init == RoutesIdle /\ DietIdle /\ BalanceIdle /\ SalaryIdle /\ DuplicateIdle /\ StoresIdle

Next ==
  \/ \E body \in SettingsBodies : UpdateSettings(body)
  \/ \E id \in ProjectIds, body \in CreateBodies : CreateProject(id, body)
  \/ \E id \in ProjectIds, body \in UpdateBodies : UpdateProject(id, body)
  \/ \E id \in ProjectIds, body \in CloseBodies : CloseProject(id, body)
  \/ \E id \in ProjectIds : DeleteProject(id)
  \/ \E id \in ProjectIds, now \in BalanceNowSamples : GetBalance(id, now)

Spec == Init /\ [][Next]_vars

\* calculateDiet on every input of DietInputs
InitDiet == RoutesIdle /\ StoresIdle /\ BalanceIdle /\ SalaryIdle /\ DuplicateIdle
              /\ dietIn \in DietInputs /\ dietOut = NotCalled
NextDiet == CallCalculateDiet
SpecDiet == InitDiet /\ [][NextDiet]_vars

\* calculateProjectBalance on every input of BalanceInputs
InitBalance == RoutesIdle /\ StoresIdle /\ DietIdle /\ SalaryIdle /\ DuplicateIdle
                 /\ balIn \in BalanceInputs /\ balOut = NotCalled
NextBalance == CallCalculateProjectBalance
SpecBalance == InitBalance /\ [][NextBalance]_vars

\* calculateSalaryNet on every input of SalaryInputs
InitSalary == RoutesIdle /\ StoresIdle /\ DietIdle /\ BalanceIdle /\ DuplicateIdle
                /\ salIn \in SalaryInputs /\ salOut = NotCalled
NextSalary == CallCalculateSalaryNet
SpecSalary == InitSalary /\ [][NextSalary]_vars

\* calculateSalaryNet on every input of WideSalaryInputs
InitSalaryRates == RoutesIdle /\ StoresIdle /\ DietIdle /\ BalanceIdle /\ DuplicateIdle
                     /\ salIn \in WideSalaryInputs /\ salOut = NotCalled
NextSalaryRates == CallCalculateSalaryNet
SpecSalaryRates == InitSalaryRates /\ [][NextSalaryRates]_vars

\* detectDuplicateDocument on every input of DuplicateInputs
InitDuplicate == RoutesIdle /\ StoresIdle /\ DietIdle /\ BalanceIdle /\ SalaryIdle
                   /\ dupIn \in DuplicateInputs /\ dupOut = NotCalled
NextDuplicate == CallDetectDuplicateDocument
SpecDuplicate == InitDuplicate /\ [][NextDuplicate]_vars

\* calculateDiet and calculateProjectBalance, each on every input of its set
InitDietBalance == InitDiet \/ InitBalance
NextDietBalance ==
  \/ "mode" \in DOMAIN dietIn /\ CallCalculateDiet
  \/ "project" \in DOMAIN balIn /\ CallCalculateProjectBalance
SpecDietBalance == InitDietBalance /\ [][NextDietBalance]_vars

\* generateDocumentFingerprint on every document of FingerprintDocs
InitFingerprint == RoutesIdle /\ StoresIdle /\ DietIdle /\ BalanceIdle /\ SalaryIdle
                     /\ dupIn \in FingerprintDocs /\ dupOut = NotCalled
NextFingerprint == CallGenerateDocumentFingerprint
SpecFingerprint == InitFingerprint /\ [][NextFingerprint]_vars

\* the transaction, import and advance routes on a project that is created,
\* closed and deleted, with GET /:id/balance
LedgerCreateBodies ==
  {b \in CreateBodies : b.countryCode = "PL" /\ b.plannedEndDatetime = ABSENT
                        /\ b.breakfastCount = 0 /\ b.salaryBrutto = ABSENT}

InitLedger == Init
NextLedger ==
  \/ \E id \in ProjectIds, body \in LedgerCreateBodies : CreateProject(id, body)
  \/ \E id \in ProjectIds, body \in CloseBodies : CloseProject(id, body)
  \/ \E id \in ProjectIds : DeleteProject(id)
  \/ \E body \in CreateTransactionBodies : CreateTransaction(body)
  \/ \E id \in RowIds, body \in UpdateTransactionBodies : UpdateTransaction(id, body)
  \/ \E id \in RowIds : DeleteTransaction(id)
  \/ \E projectId \in ProjectIds, file \in CsvFiles : ImportCsv(projectId, file)
  \/ \E body \in CreateAdvanceBodies : CreateAdvance(body)
  \/ \E id \in RowIds : DeleteAdvance(id)
  \/ \E id \in ProjectIds, now \in BalanceNowSamples : GetBalance(id, now)
SpecLedger == InitLedger /\ [][NextLedger]_vars

\* PUT /:id and POST /:id/close overlapping on one project
InitProjectRace == Init
NextProjectRace ==
  \/ \E id \in ProjectIds, body \in LedgerCreateBodies : CreateProject(id, body)
  \/ \E id \in ProjectIds, body \in RaceUpdateBodies : UpdateProjectRead(id, body)
  \/ \E req \in requests : UpdateProjectWrite(req)
  \/ \E id \in ProjectIds, body \in CloseBodies : CloseProjectRead(id, body)
  \/ \E req \in requests : CloseProjectWrite(req)
SpecProjectRace == InitProjectRace /\ [][NextProjectRace]_vars

\* uploads, re-processing and the runs of processReceiptAsync
InitReceipts == Init
NextReceipts ==
  \/ \E userId \in UserIds : UploadReceipt(userId)
  \/ \E id \in 1..MaxReceipts, userId \in UserIds : ReprocessReceipt(id, userId)
  \/ \E i \in DOMAIN runs, dbOk \in BOOLEAN : RunSetProcessing(i, dbOk)
  \/ \E i \in DOMAIN runs, ok \in BOOLEAN : RunOcr(i, ok)
  \/ \E i \in DOMAIN runs, ok \in BOOLEAN, aiResult \in AiResults : RunAi(i, ok, aiResult)
  \/ \E i \in DOMAIN runs, dbOk \in BOOLEAN : RunQuery(i, dbOk)
  \/ \E i \in DOMAIN runs, dbOk \in BOOLEAN : RunWrite(i, dbOk)
  \/ \E i \in DOMAIN runs, dbOk \in BOOLEAN : RunCatch(i, dbOk)
SpecReceipts == InitReceipts /\ [][NextReceipts]_vars

----------------------------------------------------------------------------
(* Properties of calculateProjectBalance                                    *)

AmountsOf(rows) == [i \in 1..Len(rows) |-> rows[i].amount]

RemoveAt(seq, i) == SubSeq(seq, 1, i - 1) \o SubSeq(seq, i + 1, Len(seq))

Discounted(t) == t.isPrivate \/ t.excludedFromProject

Counted(t) == ~Discounted(t)

BalanceReturned == balOut.called /\ ~balOut.value.threw

SixCategoryTotal(categoryTotals) ==
  categoryTotals["FOOD"] + categoryTotals["TRANSPORT"] + categoryTotals["HOTEL"]
    + categoryTotals["PARKING"] + categoryTotals["FUEL"] + categoryTotals["OTHER"]

\* C1: whenever calculateProjectBalance returns a result, advancesTotal is the
\* sum of all supplied advances, expensesTotal is the sum of the six category
\* totals, and balance = round2(advancesTotal - expensesTotal + diet.totalDiet).
C1_BalanceIdentity ==
  BalanceReturned =>
    LET r == balOut.value
    IN /\ r.advancesTotal = SumSeq(AmountsOf(balIn.advances))
       /\ r.expensesTotal = SixCategoryTotal(r.categoryTotals)
       /\ r.balance = r.advancesTotal - r.expensesTotal + r.diet.totalDiet

\* advances 500.00, expenses 350.00, diet 93.75: balance +243.75
C1_Witness ==
  /\ BalanceReturned
  /\ balOut.value.advancesTotal = 50000
  /\ balOut.value.expensesTotal = 35000
  /\ balOut.value.diet.totalDiet = 9375
  /\ balOut.value.balance = 24375

\* C5: a private or excluded transaction contributes to nothing: removing it,
\* changing its amount or adding another one leaves the whole result as it is;
\* expensesTotal and transactionCount are those of the remaining transactions.
C5_DiscountedTransactionsIgnored ==
  balOut.called =>
    LET txs == balIn.transactions
        discounted == {i \in 1..Len(txs) : Discounted(txs[i])}
        without(i) == [balIn EXCEPT !.transactions = RemoveAt(txs, i)]
        repriced(i) == [balIn EXCEPT !.transactions[i].amount = @ + 12300]
        with(t) == [balIn EXCEPT !.transactions = Append(txs, t)]
    IN /\ \A i \in discounted :
            /\ calculateProjectBalance(without(i)) = balOut.value
            /\ calculateProjectBalance(repriced(i)) = balOut.value
       /\ \A t \in {x \in TxSamples : Discounted(x)} :
            calculateProjectBalance(with(t)) = balOut.value
       /\ ~balOut.value.threw =>
            /\ balOut.value.expensesTotal = SumSeq(AmountsOf(SelectSeq(txs, Counted)))
            /\ balOut.value.expensesTotal = SixCategoryTotal(balOut.value.categoryTotals)
            /\ balOut.value.transactionCount = Len(SelectSeq(txs, Counted))

C5_Witness ==
  /\ BalanceReturned
  /\ \E i \in 1..Len(balIn.transactions) :
       balIn.transactions[i].excludedFromProject /\ ~balIn.transactions[i].isPrivate
  /\ \E i \in 1..Len(balIn.transactions) : Counted(balIn.transactions[i])
  /\ balOut.value.transactionCount = 1
  /\ balOut.value.expensesTotal > 0

\* C6: hotelCombined = HOTEL + PARKING; no_hotel at 0, within_limit up to and
\* including the limit, over_limit above it; hotelOverage is the excess over
\* the limit when over_limit and 0 otherwise, so never negative.
C6_HotelClassification ==
  BalanceReturned =>
    LET r == balOut.value
        limit == balIn.project.hotelLimitSnapshot
    IN /\ r.hotelCombined = r.categoryTotals["HOTEL"] + r.categoryTotals["PARKING"]
       /\ r.hotelLimit = limit
       /\ (r.hotelCombined = 0) => (r.hotelStatus = "no_hotel")
       /\ (0 < r.hotelCombined /\ r.hotelCombined <= limit) => (r.hotelStatus = "within_limit")
       /\ (r.hotelCombined > limit) => (r.hotelStatus = "over_limit")
       /\ r.hotelOverage =
            (IF r.hotelStatus = "over_limit" THEN r.hotelCombined - limit ELSE 0)
       /\ r.hotelOverage >= 0
       /\ (r.hotelCombined = 30000 /\ limit = 27000) =>
            (r.hotelStatus = "over_limit" /\ r.hotelOverage = 3000)

\* HOTEL 170.00 + PARKING 100.00 against the limit 270.00
C6_Witness ==
  /\ BalanceReturned
  /\ balOut.value.categoryTotals["HOTEL"] = 17000
  /\ balOut.value.categoryTotals["PARKING"] = 10000
  /\ balOut.value.hotelCombined = balOut.value.hotelLimit
  /\ balOut.value.hotelStatus = "within_limit"
  /\ balOut.value.hotelOverage = 0

----------------------------------------------------------------------------
(* Properties of calculateDiet                                              *)

DietReturned == dietOut.called /\ ~dietOut.value.threw

\* C2: for a trip whose effective end is after its start, fullDays is
\* floor(hours / 24), the multiplier is 1/3 below 8 h of remainder, 1/2 from 8 h
\* to below 12 h and 1 from 12 h, totalDays is fullDays plus the multiplier when
\* the remainder is positive, and the gross diet is totalDays times the rate;
\* 54 h at 45.00 with one breakfast give 2 days, 105.00, 11.25 and 93.75.
C2_DietDaysAndMultiplier ==
  (DietReturned /\ dietOut.value.endDatetime > dietIn.startDatetime) =>
    LET r == dietOut.value
        minutes == r.endDatetime - dietIn.startDatetime
        remainder == minutes % 1440
        multiplier == IF remainder < 480 THEN 2 ELSE IF remainder < 720 THEN 3 ELSE 6
        days6 == 6 * (minutes \div 1440) + (IF remainder > 0 THEN multiplier ELSE 0)
    IN /\ r.fullDays = minutes \div 1440
       /\ r.partialDayMultiplier = multiplier
       /\ (remainder = 480) => (r.partialDayMultiplier = 3)
       /\ (remainder = 720) => (r.partialDayMultiplier = 6)
       /\ r.totalDays = MathRound(days6 * 100, 6)
       /\ r.dietBeforeBreakfast = MathRound(days6 * dietIn.dailyRate, 6)
       /\ (minutes = 54 * 60 /\ dietIn.dailyRate = 4500 /\ dietIn.breakfastCount = 1) =>
            /\ r.fullDays = 2
            /\ r.dietBeforeBreakfast = 10500
            /\ r.breakfastDeduction = 1125
            /\ r.totalDiet = 9375

\* a remainder of exactly 8 h after one full day
C2_Witness ==
  /\ DietReturned
  /\ dietOut.value.endDatetime - dietIn.startDatetime = 1440 + 480
  /\ dietOut.value.fullDays = 1
  /\ dietOut.value.partialDayMultiplier = 3
  /\ dietOut.value.totalDays = 150

EffectiveEnd(input) ==
  CASE input.mode = "LIVE" -> input.now
    [] input.mode = "PLANNED" -> input.plannedEndDatetime
    [] input.mode = "CLOSED" -> input.actualEndDatetime

\* the same input with the trip ending at the instant end
EndingAt(input, end) ==
  [input EXCEPT !.now = IF input.mode = "LIVE" THEN end ELSE @,
                !.plannedEndDatetime = IF input.mode = "PLANNED" THEN end ELSE @,
                !.actualEndDatetime = IF input.mode = "CLOSED" THEN end ELSE @]

\* the mode the balance asks for lacks its end instant
BalanceEndMissing(project) ==
  IF project.status = "CLOSED" /\ project.actualEndDatetime # NULL THEN FALSE
  ELSE IF project.status = "ACTIVE" THEN FALSE
  ELSE project.plannedEndDatetime = NULL

\* C16: calculateDiet in PLANNED mode without plannedEndDatetime and in
\* CLOSED mode without actualEndDatetime fails with an error and returns no
\* DietResult; calculateProjectBalance does not swallow the failure: it
\* returns no balance for such a project.
C16_MissingEndFails ==
  /\ (dietOut.called /\ EffectiveEnd(dietIn) = NULL) =>
         /\ dietOut.value.threw
         /\ dietOut.value.error =
              (IF dietIn.mode = "PLANNED"
               THEN "plannedEndDatetime required for PLANNED mode"
               ELSE "actualEndDatetime required for CLOSED mode")
         /\ "totalDiet" \notin DOMAIN dietOut.value
  /\ (balOut.called /\ BalanceEndMissing(balIn.project)) =>
         /\ balOut.value.threw
         /\ "balance" \notin DOMAIN balOut.value
         /\ "diet" \notin DOMAIN balOut.value

\* the balance of a DRAFT project without a planned end, with transactions
\* and advances on it
C16_Witness ==
  /\ balOut.called
  /\ balIn.project.status = "DRAFT"
  /\ balIn.project.plannedEndDatetime = NULL
  /\ Len(balIn.transactions) > 0 /\ Len(balIn.advances) > 0
  /\ balOut.value = DietError("plannedEndDatetime required for PLANNED mode")

\* C17: when the effective end is at or before the start, calculateDiet
\* raises no error and returns fullDays, partialDayMultiplier, totalDays,
\* dietBeforeBreakfast, breakfastDeduction and totalDiet all 0 and an empty
\* itemization, for every rate and breakfast count.
C17_NotStartedIsZero ==
  (/\ dietOut.called
   /\ EffectiveEnd(dietIn) # NULL
   /\ EffectiveEnd(dietIn) <= dietIn.startDatetime) =>
    /\ ~dietOut.value.threw
    /\ dietOut.value.fullDays = 0
    /\ dietOut.value.partialDayMultiplier = 0
    /\ dietOut.value.totalDays = 0
    /\ dietOut.value.dietBeforeBreakfast = 0
    /\ dietOut.value.breakfastDeduction = 0
    /\ dietOut.value.totalDiet = 0
    /\ dietOut.value.detailedBreakdown = <<>>

\* a planned end equal to the start, three breakfasts declared
C17_Witness ==
  /\ DietReturned
  /\ dietIn.mode = "PLANNED"
  /\ dietIn.plannedEndDatetime = dietIn.startDatetime
  /\ dietIn.breakfastCount = 3
  /\ dietOut.value.totalDays = 0
  /\ dietOut.value.totalDiet = 0
  /\ dietOut.value.detailedBreakdown = <<>>

\* C18: for a fixed dailyRate and breakfastCount, totalDiet is non-decreasing
\* in the trip's duration: a trip with the same start that ends no earlier
\* has a totalDiet at least as large, across the 8 h, 12 h and 24 h
\* boundaries and after rounding to 2 decimals.
C18_DietMonotonic ==
  DietReturned =>
    \A end \in TripEnds :
      (end >= EffectiveEnd(dietIn)) =>
        /\ ~calculateDiet(EndingAt(dietIn, end)).threw
        /\ calculateDiet(EndingAt(dietIn, end)).totalDiet >= dietOut.value.totalDiet

\* 7 h 59 min against 8 h on the second day: a third of a day, then a half
C18_Witness ==
  /\ DietReturned
  /\ EffectiveEnd(dietIn) = dietIn.startDatetime + 1440 + 479
  /\ dietIn.breakfastCount = 1
  /\ dietOut.value.totalDiet > 0
  /\ calculateDiet(EndingAt(dietIn, dietIn.startDatetime + 1440 + 480)).totalDiet
       > dietOut.value.totalDiet

\* C25: the reported partialDayMultiplier is the fraction that was added to
\* fullDays: totalDays = fullDays + partialDayMultiplier to 2 decimals, and
\* partialDayMultiplier is 0 when the duration is an exact multiple of 24 h.
C25_MultiplierIsFractionAdded ==
  DietReturned =>
    LET r == dietOut.value
    IN /\ r.totalDays = MathRound((6 * r.fullDays + r.partialDayMultiplier) * 100, 6)
       /\ ((r.endDatetime - dietIn.startDatetime) % 1440 = 0) => (r.partialDayMultiplier = 0)

----------------------------------------------------------------------------
(* Properties of calculateSalaryNet                                         *)

\* the rates a call works with
RatesUsed == IF salIn.taxRates = NoTaxRates THEN TAX_RATES_2024_2025 ELSE salIn.taxRates

\* C7: the breakdown reconciles to the penny: netto = brutto -
\* totalSocialSecurity - healthInsurance - incomeTax - ppkEmployee on the
\* reported line items, and totalSocialSecurity = pension + disability + sickness.
C7_SalaryReconciles ==
  salOut.called =>
    LET r == salOut.value
    IN /\ r.brutto = salIn.brutto
       /\ r.netto =
            r.brutto - r.totalSocialSecurity - r.healthInsurance - r.incomeTax - r.ppkEmployee
       /\ r.totalSocialSecurity =
            r.pensionContribution + r.disabilityContribution + r.sicknessContribution

\* every deduction is present: sickness, PPK and a positive income tax
C7_Witness ==
  /\ salOut.called
  /\ salIn.voluntarySocialSecurity /\ salIn.ppkEnabled
  /\ salOut.value.sicknessContribution > 0
  /\ salOut.value.ppkEmployee > 0
  /\ salOut.value.incomeTax > 0
  /\ salOut.value.netto < salOut.value.brutto

\* C8: income tax follows step 3: incomeBase = gross - totalSocialSecurity;
\* costOfIncome = min(incomeBase * costOfIncomeRate, maxCostOfIncome); taxBase =
\* max(0, incomeBase - costOfIncome) rounded to a whole unit; taxBeforeDeduction
\* = taxBase * incomeTaxRate; taxFreeDeduction = min(taxBeforeDeduction,
\* allowance); incomeTax = max(0, taxBeforeDeduction - taxFreeDeduction).
\* Gross 5000 with the 2024/2025 rates, no sickness, no PPK: 250.00, 4187,
\* 502.44, 300.00, 202.44 and netto 3835.23.
C8_IncomeTaxSteps ==
  salOut.called =>
    LET r == salOut.value
        rates == RatesUsed
    IN /\ r.incomeBase = salIn.brutto - r.totalSocialSecurity
       /\ r.costOfIncome =
            Min(MathRound(r.incomeBase * rates.costOfIncome, 10000), rates.maxCostOfIncome)
       /\ r.taxBase = MathRound(Max(0, r.incomeBase - r.costOfIncome), 100)
       /\ r.taxBeforeDeduction = MathRound(r.taxBase * rates.incomeTaxRate, 100)
       /\ r.taxFreeDeduction = Min(r.taxBeforeDeduction, rates.taxFreeMonthly)
       /\ r.incomeTax = Max(0, r.taxBeforeDeduction - r.taxFreeDeduction)
       /\ (/\ salIn.brutto = 500000 /\ rates = TAX_RATES_2024_2025
           /\ ~salIn.voluntarySocialSecurity /\ ~salIn.ppkEnabled) =>
            /\ r.costOfIncome = 25000
            /\ r.taxBase = 4187
            /\ r.taxBeforeDeduction = 50244
            /\ r.taxFreeDeduction = 30000
            /\ r.incomeTax = 20244
            /\ r.netto = 383523

\* the worked example: gross 5000.00 under the 2024/2025 rates
C8_Witness ==
  /\ salOut.called
  /\ salIn.brutto = 500000 /\ salIn.taxRates = TAX_RATES_2024_2025
  /\ ~salIn.voluntarySocialSecurity /\ ~salIn.ppkEnabled
  /\ salOut.value.incomeBase = 443700
  /\ salOut.value.costOfIncome = 25000
  /\ salOut.value.incomeTax = 20244
  /\ salOut.value.netto = 383523

\* C9: pension = gross * pensionRate and disability = gross * disabilityRate,
\* each to 2 decimals; sickness = gross * sicknessRate with the voluntary flag
\* and exactly 0 without; ppkEmployee is non-zero only when ppkEnabled; the
\* health base is gross - totalSocialSecurity and the health contribution is
\* that base * healthInsuranceRate.
C9_ContributionSteps ==
  salOut.called =>
    LET r == salOut.value
        rates == RatesUsed
    IN /\ r.pensionContribution = MathRound(salIn.brutto * rates.pensionRate, 10000)
       /\ r.disabilityContribution = MathRound(salIn.brutto * rates.disabilityRate, 10000)
       /\ r.sicknessContribution =
            (IF salIn.voluntarySocialSecurity
             THEN MathRound(salIn.brutto * rates.sicknessRate, 10000) ELSE 0)
       /\ (r.ppkEmployee # 0) => salIn.ppkEnabled
       /\ salIn.ppkEnabled =>
            (r.ppkEmployee = MathRound(salIn.brutto * salIn.ppkPercentage, 1000))
       /\ r.healthInsuranceBase = salIn.brutto - r.totalSocialSecurity
       /\ r.healthInsurance =
            MathRound(r.healthInsuranceBase * rates.healthInsuranceRate, 10000)

\* no voluntary sickness insurance, PPK enrolled, gross 5000.00
C9_Witness ==
  /\ salOut.called
  /\ ~salIn.voluntarySocialSecurity /\ salIn.ppkEnabled
  /\ salIn.brutto = 500000 /\ salIn.taxRates = NoTaxRates
  /\ salOut.value.pensionContribution = 48800
  /\ salOut.value.disabilityContribution = 7500
  /\ salOut.value.sicknessContribution = 0
  /\ salOut.value.healthInsurance = 39933
  /\ salOut.value.ppkEmployee > 0

\* C11 as stated: for every gross salary >= 0, non-negative rates and PPK
\* percentage >= 0, calculateSalaryNet returns incomeTax >= 0 and
\* netto <= brutto.
C11_NettoNeverExceedsBrutto ==
  salOut.called =>
    /\ salOut.value.incomeTax >= 0
    /\ salOut.value.netto <= salOut.value.brutto

\* C11 as amended: the same for a gross salary in whole cents and a health
\* insurance rate of at most 100%: incomeTax >= 0 and netto <= brutto.
C11_NettoNeverExceedsBruttoAmended ==
  (salOut.called /\ RatesUsed.healthInsuranceRate <= 10000) =>
    /\ salOut.value.incomeTax >= 0
    /\ salOut.value.netto <= salOut.value.brutto

\* social contributions above the gross, the health rate at 100%, PPK taken
C11_Witness ==
  /\ salOut.called
  /\ RatesUsed.healthInsuranceRate = 10000
  /\ salIn.brutto > 0 /\ salIn.ppkEnabled /\ salIn.ppkPercentage > 0
  /\ salOut.value.totalSocialSecurity > salOut.value.brutto
  /\ salOut.value.healthInsurance < 0
  /\ salOut.value.netto < 0

----------------------------------------------------------------------------
(* Properties of detectDuplicateDocument                                    *)

Candidates == 1..Len(dupIn.existingDocs)

Magnitude(n) == IF n >= 0 THEN n ELSE -n

\* the four strategies, as conditions on the new document and a candidate
FingerprintsEqual(e) ==
  /\ newFingerprintOf(dupIn.newDoc) # NullText
  /\ e.fingerprint = newFingerprintOf(dupIn.newDoc)

SameAmount(e) ==
  /\ dupIn.newDoc.amount # NULL /\ e.detectedAmount # NULL
  /\ Magnitude(dupIn.newDoc.amount - e.detectedAmount) < 10

BothDated(e) == dupIn.newDoc.date # NULL /\ e.detectedDate # NULL

SameAmountSameDay(e) ==
  SameAmount(e) /\ BothDated(e) /\ dupIn.newDoc.date \div 1440 = e.detectedDate \div 1440

SameAmountNextDay(e) ==
  SameAmount(e) /\ BothDated(e) /\ Magnitude(dupIn.newDoc.date - e.detectedDate) <= 1440

SameInvoiceNumber(e) ==
  /\ dupIn.newDoc.invoiceNumber # AbsentText /\ e.invoiceNumber # AbsentText
  /\ trimToLowerCase(dupIn.newDoc.invoiceNumber) = trimToLowerCase(e.invoiceNumber)

\* the similarity of the first strategy that holds, 0 when none does
FirstStrategy(e) ==
  IF FingerprintsEqual(e) THEN 100
  ELSE IF SameAmountSameDay(e) THEN 92
  ELSE IF SameAmountNextDay(e) THEN 78
  ELSE IF SameInvoiceNumber(e) THEN 60
  ELSE 0

\* positions of matchedDocuments that report candidate i
ReportsOf(i) ==
  {k \in 1..Len(dupOut.value.matchedDocuments) : dupOut.value.matchedDocuments[k].id = i}

TierOf(similarity) ==
  CASE similarity = 100 -> "exact"
    [] similarity = 92 -> "high"
    [] similarity = 78 -> "medium"
    [] similarity = 60 -> "low"
    [] OTHER -> "none"

\* C13: suggestedAction follows the tier of the best match: exact or high
\* -> merge, medium -> review, low -> add_new; with no matching candidate,
\* also when there are no existing documents, it is add_new.
C13_SuggestedAction ==
  dupOut.called =>
    LET r == dupOut.value
        best == r.matchedDocuments[1]
    IN IF Len(r.matchedDocuments) > 0
       THEN r.suggestedAction =
              (CASE TierOf(best.similarity) \in {"exact", "high"} -> "merge"
                 [] TierOf(best.similarity) = "medium" -> "review"
                 [] OTHER -> "add_new")
       ELSE r.suggestedAction = "add_new"

\* C14: matchedDocuments is ordered by non-increasing similarity, isDuplicate
\* is true exactly when it is non-empty, and the result's confidence is the
\* tier of its first element (1.0 exact, 0.92 high, 0.78 medium, 0.6 low),
\* the tier the matching strategy gave that candidate.
C14_SortedBestFirst ==
  dupOut.called =>
    LET r == dupOut.value
        ms == r.matchedDocuments
    IN /\ \A k \in 1..(Len(ms) - 1) : ms[k].similarity >= ms[k + 1].similarity
       /\ r.isDuplicate = (Len(ms) > 0)
       /\ (Len(ms) > 0) =>
            /\ r.confidence = TierOf(ms[1].similarity)
            /\ r.confidence =
                 matchCandidate(dupIn.newDoc, newFingerprintOf(dupIn.newDoc),
                                dupIn.existingDocs[ms[1].id]).confidence
            /\ \A k \in 1..Len(ms) : ms[1].similarity >= ms[k].similarity

\* the first candidate matches by invoice number only, the second exactly:
\* the second is returned first
C14_Witness ==
  /\ dupOut.called
  /\ Len(dupOut.value.matchedDocuments) = 2
  /\ dupOut.value.matchedDocuments[1].id = 2
  /\ dupOut.value.matchedDocuments[1].similarity = 100
  /\ dupOut.value.matchedDocuments[2].id = 1
  /\ dupOut.value.matchedDocuments[2].similarity = 60
  /\ dupOut.value.confidence = "exact"
  /\ dupOut.value.isDuplicate

\* the new document carries an invoice number, an amount and a date
NewDocComplete ==
  /\ dupIn.newDoc.invoiceNumber # AbsentText
  /\ dupIn.newDoc.amount # NULL
  /\ dupIn.newDoc.date # NULL

\* C15: the exact-fingerprint comparison is disabled exactly when the new
\* document lacks its invoice number, amount or date: a candidate whose
\* fingerprint is that of a complete new document is reported at 1.0, nothing
\* is reported at 1.0 for an incomplete one, and strategies 2-4 report a
\* candidate whenever the fields they need are present and agree.
C15_FingerprintDisabledOnlyWhenIncomplete ==
  dupOut.called =>
    LET ms == dupOut.value.matchedDocuments
    IN /\ \A i \in Candidates :
            LET e == dupIn.existingDocs[i]
            IN /\ (NewDocComplete /\ e.fingerprint = generateDocumentFingerprint(dupIn.newDoc))
                    => \E k \in ReportsOf(i) : ms[k].similarity = 100
               /\ (SameAmountSameDay(e) \/ SameAmountNextDay(e) \/ SameInvoiceNumber(e))
                    => ReportsOf(i) # {}
       /\ ~NewDocComplete => \A k \in 1..Len(ms) : ms[k].similarity < 100

\* invoice numbers that differ only in letter case or surrounding whitespace
InvoiceSpellings == {{"FV/1", " fv/1 ", "fv/1"}, {"FV/2"}, {AbsentText}}

SameInvoiceSpelling(a, b) == \E class \in InvoiceSpellings : a \in class /\ b \in class

\* amounts equal to 2 decimals; an absent amount only equals an absent one
SameAmountToCents(a, b) ==
  IF a = NULL \/ b = NULL THEN a = b ELSE (a + 5) \div 10 = (b + 5) \div 10

SameCalendarDay(a, b) ==
  IF a = NULL \/ b = NULL THEN a = b ELSE a \div 1440 = b \div 1440

\* C21: generateDocumentFingerprint is normalising: two documents whose
\* invoice numbers differ only in letter case or surrounding whitespace,
\* whose amounts are equal to 2 decimals and whose dates fall on the same
\* calendar day receive the same fingerprint.
C21_FingerprintNormalises ==
  dupOut.called =>
    \A other \in FingerprintDocs :
      (/\ SameInvoiceSpelling(dupIn.invoiceNumber, other.invoiceNumber)
       /\ SameAmountToCents(dupIn.amount, other.amount)
       /\ SameCalendarDay(dupIn.date, other.date)) =>
        generateDocumentFingerprint(other) = dupOut.value

\* " fv/1 ", 120.504 late on 1 March: the fingerprint of FV/1, 120.50, 1 March
C21_Witness ==
  /\ dupOut.called
  /\ dupIn = [invoiceNumber |-> " fv/1 ", amount |-> 120504, date |-> At(March1, 24) - 1]
  /\ dupOut.value =
       generateDocumentFingerprint(
         [invoiceNumber |-> "FV/1", amount |-> 120500, date |-> At(March1, 0)])
  /\ dupOut.value = <<"sha256", "fv/1", 12050, March1>>

TierRank(confidence) ==
  CASE confidence = "low" -> 1
    [] confidence = "medium" -> 2
    [] confidence = "high" -> 3
    [] confidence = "exact" -> 4

ActionRank(action) ==
  CASE action = "add_new" -> 1
    [] action = "review" -> 2
    [] action = "merge" -> 3

\* the results of comparing any new document with any single candidate
SingleCandidateResults ==
  {detectDuplicateDocument(n, withIds(<<e>>)) : n \in NewDocs, e \in ExistingSamples}

\* C22 as stated: with low < medium < high < exact and add_new < review <
\* merge, a best match at a strictly higher tier yields a strictly more
\* urgent suggestedAction than a best match at a lower tier.
C22_UrgencyStrictlyMonotonic ==
  (dupOut.called /\ dupOut.value.isDuplicate) =>
    \A other \in SingleCandidateResults :
      (other.isDuplicate /\ TierRank(other.confidence) > TierRank(dupOut.value.confidence)) =>
        ActionRank(other.suggestedAction) > ActionRank(dupOut.value.suggestedAction)

\* C22 as amended: a best match at a higher tier never yields a less urgent
\* suggestedAction, and yields a strictly more urgent one except between high
\* and exact, which both give merge.
C22_UrgencyMonotonic ==
  (dupOut.called /\ dupOut.value.isDuplicate) =>
    \A other \in SingleCandidateResults :
      (other.isDuplicate /\ TierRank(other.confidence) > TierRank(dupOut.value.confidence)) =>
        /\ ActionRank(other.suggestedAction) >= ActionRank(dupOut.value.suggestedAction)
        /\ (dupOut.value.confidence # "high") =>
             ActionRank(other.suggestedAction) > ActionRank(dupOut.value.suggestedAction)

\* a best match at high gives merge, as one at exact does
C22_Witness ==
  /\ dupOut.called
  /\ dupOut.value.confidence = "high"
  /\ dupOut.value.suggestedAction = "merge"
  /\ \E other \in SingleCandidateResults :
       other.confidence = "exact" /\ other.suggestedAction = "merge"
  /\ \E other \in SingleCandidateResults :
       other.confidence = "medium" /\ other.suggestedAction = "review"

----------------------------------------------------------------------------
(* Properties of the project routes                                         *)

\* C3: a project's dietAmountSnapshot, hotelLimitSnapshot and currency stay
\* the values read from the rate table at creation: no later operation on the
\* project overwrites them.
C3_SnapshotsFrozen ==
  [][\A id \in ProjectIds :
       (projects[id] # NoProject /\ projects'[id] # NoProject) =>
         /\ projects'[id].dietAmountSnapshot = projects[id].dietAmountSnapshot
         /\ projects'[id].hotelLimitSnapshot = projects[id].hotelLimitSnapshot
         /\ projects'[id].currency = projects[id].currency]_vars

\* contract types the ZUS formula does not cover
UnsupportedContractTypes == {"B2B", "OTHER"}

\* C10: for a user whose contract type is B2B or OTHER, creating a project
\* with a gross salary neither stores nor returns a net figure computed by the
\* EMPLOYMENT / CIVIL_CONTRACT formula.
C10_UnsupportedContractNotComputed ==
  [][\A id \in ProjectIds :
       (/\ projects[id] = NoProject
        /\ projects'[id] # NoProject
        /\ user.contractType \in UnsupportedContractTypes) =>
         /\ projects'[id].salaryNetto = NullText
         /\ response'.salaryNetto = NULL]_vars

\* C19: a project's fields change only while it is not CLOSED: once it is
\* closed, every PUT /projects/:id and every close request on it is rejected
\* with an error and leaves every stored field as it was, and the status of
\* the stored project never leaves CLOSED.
C19_ClosedProjectImmutable ==
  [][\A id \in ProjectIds :
       (projects[id] # NoProject /\ projects[id].status = "CLOSED") =>
         /\ (projects'[id] # NoProject) => (projects'[id] = projects[id])
         /\ (response'.route \in {"PUT /projects/:id", "POST /projects/:id/close"}) =>
              /\ response'.status = 400
              /\ projects'[id] = projects[id]]_vars

\* a PUT answered with 400 on the closed project
C19_Witness ==
  /\ projects["p1"] # NoProject
  /\ projects["p1"].status = "CLOSED"
  /\ projects["p1"].actualEndDatetime # NULL
  /\ response.route = "PUT /projects/:id"
  /\ response.status = 400

\* the net salary recomputed from what the project row holds (gross salary
\* and taxSnapshotData) and the flags, which only the user row holds
RecomputedNetto(project) ==
  calculateSalaryNet([brutto |-> decryptNumber(project.salaryBrutto),
                      voluntarySocialSecurity |-> user.voluntarySocialSecurity,
                      ppkEnabled |-> user.ppkEnabled,
                      ppkPercentage |-> user.ppkPercentage,
                      taxRates |-> project.taxSnapshotData]).netto

\* C20: everything the net salary depends on (rates, voluntary-sickness
\* flag, PPK enrolment and percentage) is captured with the project, so that
\* after any later operations recomputing the net salary from the persisted
\* data reproduces the stored salaryNetto.
C20_SalarySnapshotReproducible ==
  \A id \in ProjectIds :
    (projects[id] # NoProject /\ projects[id].salaryNetto # NullText) =>
      RecomputedNetto(projects[id]) = decryptNumber(projects[id].salaryNetto)

----------------------------------------------------------------------------
(* Properties of the receipt pipeline                                       *)

\* run i goes from the await named from to the one named to in this step
RunMoves(i, from, to) == runs[i].pc = from /\ runs'[i].pc = to

ExtractionFailed(run) == run.ocrFailed \/ run.aiFailed

\* C23: a failure of the OCR step or of the AI-extraction step alone never
\* puts the receipt in FAILED.  The failing step writes nothing and the run
\* goes on to the query; detectDuplicateDocument is called there on the
\* fields extracted so far; and the run's last write, unless the database
\* rejects it, stores the receipt COMPLETED with the missing fields null.
\* FAILED is written only by a run whose query or last write was rejected.
C23_ExtractionFailureTolerated ==
  [][\A i \in DOMAIN runs :
       /\ (runs[i].pc \in {"ocr", "ai"} /\ runs'[i] # runs[i]) =>
            /\ runs'[i].pc \in {"ai", "query"}
            /\ receipts' = receipts
       /\ (runs[i].pc # "catch" /\ runs'[i].pc = "catch") => runs[i].pc \in {"query", "write"}
       /\ (RunMoves(i, "query", "write") /\ ExtractionFailed(runs[i])) =>
            /\ runs[i].invoiceNumber = AbsentText
            /\ runs[i].detectedAmount = NULL
            /\ runs[i].detectedDate = NULL
            /\ runs'[i].isDuplicate =
                 detectDuplicateDocument(
                   [invoiceNumber |-> AbsentText, amount |-> NULL, date |-> NULL],
                   otherReceiptsOf(runs[i].userId, runs[i].receiptId)).isDuplicate
       /\ (RunMoves(i, "write", "done") /\ ExtractionFailed(runs[i])) =>
            LET row == receipts'[runs[i].receiptId]
            IN /\ row.processingStatus = "COMPLETED"
               /\ row.invoiceNumber = AbsentText
               /\ row.detectedAmount = NULL
               /\ row.detectedDate = NULL
               /\ runs[i].ocrFailed => row.ocrText = AbsentText
               /\ ~row.isDuplicate
       /\ \A r \in DOMAIN receipts :
            (RunMoves(i, "ocr", "query") \/ RunMoves(i, "ai", "query")) =>
              receipts'[r].processingStatus = receipts[r].processingStatus]_vars

\* one receipt completed after its OCR failed, another after its AI
\* extraction failed
C23_Witness ==
  \E a, b \in DOMAIN receipts :
    /\ receipts[a].processingStatus = "COMPLETED"
    /\ receipts[a].ocrText = AbsentText
    /\ receipts[a].detectedAmount = NULL
    /\ receipts[b].processingStatus = "COMPLETED"
    /\ receipts[b].ocrText = "text"
    /\ receipts[b].detectedAmount = NULL
    /\ \A i \in DOMAIN runs : runs[i].pc = "done"

StatusSteps ==
  { <<"PENDING", "PROCESSING">>, <<"PROCESSING", "COMPLETED">>, <<"PROCESSING", "FAILED">>,
    <<"PROCESSING", "PENDING">>, <<"COMPLETED", "PENDING">>, <<"FAILED", "PENDING">> }

RunsFinished(r) == \A i \in DOMAIN runs : runs[i].receiptId = r => runs[i].pc = "done"

\* C24: the processing status of a receipt moves from PENDING to PROCESSING
\* and from PROCESSING to COMPLETED or FAILED, a re-process request being
\* what puts it back to PENDING; and a receipt all of whose runs have
\* finished is COMPLETED or FAILED.
C24_StatusSequence ==
  [][\A r \in DOMAIN receipts :
       /\ receipts'[r].processingStatus # receipts[r].processingStatus =>
            <<receipts[r].processingStatus, receipts'[r].processingStatus>> \in StatusSteps
       /\ RunsFinished(r)' => receipts'[r].processingStatus \in {"COMPLETED", "FAILED"}]_vars

Completed(r) == receipts[r].processingStatus = "COMPLETED" /\ RunsFinished(r)

SameAmountAndDate(a, b) ==
  /\ receipts[a].detectedAmount # NULL
  /\ receipts[a].detectedAmount = receipts[b].detectedAmount
  /\ receipts[a].detectedDate # NULL
  /\ receipts[b].detectedDate # NULL
  /\ normalizeDate(receipts[a].detectedDate) = normalizeDate(receipts[b].detectedDate)

RecordedDuplicateOf(a, b) == receipts[a].isDuplicate /\ receipts[a].duplicateOfId = b

\* C29: of two receipts of one user that were both processed to COMPLETED
\* with the same extracted amount on the same day, at least one is stored
\* as a duplicate of the other, however their runs interleaved; and no
\* receipt is stored as a duplicate of itself or of another user's receipt.
C29_DuplicateRecorded ==
  /\ \A a, b \in DOMAIN receipts :
       (/\ a # b
        /\ receipts[a].userId = receipts[b].userId
        /\ Completed(a) /\ Completed(b)
        /\ SameAmountAndDate(a, b)) =>
         RecordedDuplicateOf(a, b) \/ RecordedDuplicateOf(b, a)
  /\ \A a \in DOMAIN receipts :
       receipts[a].duplicateOfId # NULL =>
         /\ receipts[a].duplicateOfId # a
         /\ receipts[receipts[a].duplicateOfId].userId = receipts[a].userId

----------------------------------------------------------------------------
(* Properties of the project life cycle and of the ledger routes            *)

ProjectWellFormed(project) ==
  /\ project.status \in {"ACTIVE", "CLOSED"}
  /\ (project.actualEndDatetime # NULL) <=> (project.status = "CLOSED")
  /\ getDietMode(project.status, project.actualEndDatetime) =
       (IF project.status = "ACTIVE" THEN "LIVE" ELSE "CLOSED")

\* C26: every stored project is ACTIVE or CLOSED and has an
\* actualEndDatetime exactly when it is CLOSED; no request takes a project
\* from CLOSED to ACTIVE; the diet mode of its balance is LIVE while it is
\* ACTIVE and CLOSED once it is closed; and GET /projects/:id/balance is
\* never answered with the error of a missing end.
C26_StatusAndEndConsistent ==
  [][/\ \A id \in ProjectIds :
          /\ projects'[id] # NoProject => ProjectWellFormed(projects'[id])
          /\ (projects[id] # NoProject /\ projects[id].status = "CLOSED"
              /\ projects'[id] # NoProject) => projects'[id].status = "CLOSED"
     /\ response'.route = "GET /projects/:id/balance" =>
          /\ response'.status \in {200, 404}
          /\ response'.status = 200 =>
               \E id \in ProjectIds :
                 /\ projects[id] # NoProject
                 /\ response'.data.diet.isLive = (projects[id].status = "ACTIVE")
                 /\ projects[id].status = "CLOSED" =>
                      response'.data.diet.endDatetime = projects[id].actualEndDatetime]_vars

\* the balance of a closed project has been read
C26_Witness ==
  /\ projects["p1"] # NoProject
  /\ projects["p1"].status = "CLOSED"
  /\ projects["p1"].actualEndDatetime # NULL
  /\ response.route = "GET /projects/:id/balance"
  /\ response.status = 200
  /\ ~response.data.diet.isLive
  /\ response.data.diet.endDatetime = projects["p1"].actualEndDatetime

UpdatableFields ==
  {"name", "startDatetime", "plannedEndDatetime", "breakfastCount", "countryCode",
   "countryName", "currency", "dietAmountSnapshot", "hotelLimitSnapshot"}

\* C27: when a PUT /projects/:id and a POST /projects/:id/close overlap on
\* an ACTIVE project, no field a PUT can set is written once the project is
\* stored as CLOSED.
C27_NoWriteAfterClosed ==
  [][\A id \in ProjectIds :
       isClosed(projects[id]) =>
         \A f \in UpdatableFields : projects'[id][f] = projects[id][f]]_vars

\* advancesTotal, expensesTotal, diet and balance of GET /projects/:id/balance
BalanceFigures(id) ==
  LET b == calculateProjectBalance(
             [project |-> projects[id],
              transactions |-> rowsOfProject(transactions, id),
              advances |-> rowsOfProject(advances, id),
              now |-> CHOOSE now \in BalanceNowSamples : TRUE])
  IN <<b.advancesTotal, b.expensesTotal, b.diet, b.balance>>

\* every row of the project, deleted or not
AllRows(table, id) == SelectSeq(table, LAMBDA r : r.projectId = id)

\* C28: while a project is CLOSED, no request changes the transactions or
\* the advances of the project, and the figures GET /projects/:id/balance
\* returns for it stay what they were.
C28_ClosedBalanceFinal ==
  [][\A id \in ProjectIds :
       (isClosed(projects[id]) /\ isClosed(projects'[id])) =>
         /\ AllRows(transactions', id) = AllRows(transactions, id)
         /\ AllRows(advances', id) = AllRows(advances, id)
         /\ BalanceFigures(id)' = BalanceFigures(id)]_vars

Exists(table, i) == i \in DOMAIN table /\ table[i] # NoRow

\* the rows of a table that are of the project and not deleted
LiveRows(table, id) ==
  {i \in DOMAIN table : Exists(table, i) /\ table[i].projectId = id /\ ~table[i].isDeleted}

RECURSIVE SumOver(_, _)
SumOver(table, ids) ==
  IF ids = {} THEN 0
  ELSE LET i == CHOOSE j \in ids : TRUE IN table[i].amount + SumOver(table, ids \ {i})

====
